---- MODULE Spec2Model ----
(***************************************************************************)
(* LabelFlow annotation persistence core (src/src/data_manager.py):        *)
(* ImageInfo, HashCalculationThread and DataManager, over an explicit      *)
(* model of the working directory's files.                                 *)
(***************************************************************************)
EXTENDS Integers, Sequences, FiniteSets, TLC

(***************************************************************************)
(* Strings.  A Python str is a sequence of one-character strings so that   *)
(* comparison, lower(), splitext and endswith are computed, not assumed.   *)
(***************************************************************************)

\* The characters of the model in code-point order ("." < "/" < digits <
\* upper case < "_" < lower case), as Python's str comparison orders them.
CodePoints ==
    << ".", "/", "0", "1", "2", "3", "4", "5", "6", "7", "8", "9",
       "A", "B", "C", "D", "E", "F", "G", "H", "I", "J", "K", "L", "M",
       "N", "O", "P", "Q", "R", "S", "T", "U", "V", "W", "X", "Y", "Z",
       "_",
       "a", "b", "c", "d", "e", "f", "g", "h", "i", "j", "k", "l", "m",
       "n", "o", "p", "q", "r", "s", "t", "u", "v", "w", "x", "y", "z" >>

CodePointOf ==
    [c \in { CodePoints[i] : i \in 1..Len(CodePoints) } |->
        CHOOSE i \in 1..Len(CodePoints) : CodePoints[i] = c]

Ord(c) == CodePointOf[c]

UpperCase == << "A", "B", "C", "D", "E", "F", "G", "H", "I", "J", "K", "L", "M",
                "N", "O", "P", "Q", "R", "S", "T", "U", "V", "W", "X", "Y", "Z" >>

LowerCase == << "a", "b", "c", "d", "e", "f", "g", "h", "i", "j", "k", "l", "m",
                "n", "o", "p", "q", "r", "s", "t", "u", "v", "w", "x", "y", "z" >>

LowerOf ==
    [c \in { CodePoints[i] : i \in 1..Len(CodePoints) } |->
        IF \E i \in 1..Len(UpperCase) : UpperCase[i] = c
        THEN LowerCase[CHOOSE i \in 1..Len(UpperCase) : UpperCase[i] = c]
        ELSE c]

LowerChar(c) == LowerOf[c]

\* str.lower()
Lower(s) == [i \in 1..Len(s) |-> LowerChar(s[i])]

\* a < b on str: lexicographic by code point, a proper prefix being smaller
RECURSIVE StrLess(_, _)
StrLess(a, b) ==
    IF b = << >> THEN FALSE
    ELSE IF a = << >> THEN TRUE
    ELSE IF a[1] = b[1] THEN StrLess(Tail(a), Tail(b))
    ELSE Ord(a[1]) < Ord(b[1])

StrLeq(a, b) == a = b \/ StrLess(a, b)

\* str.endswith
EndsWith(s, suffix) ==
    /\ Len(suffix) <= Len(s)
    /\ SubSeq(s, Len(s) - Len(suffix) + 1, Len(s)) = suffix

\* os.path.splitext: split at the last dot, unless the name has no dot or
\* only leading dots before it
LastDot(s) ==
    IF \E i \in 1..Len(s) : s[i] = "."
    THEN CHOOSE i \in 1..Len(s) : s[i] = "." /\ \A j \in (i+1)..Len(s) : s[j] # "."
    ELSE 0

SplitExtAt(s) ==
    IF LastDot(s) = 0 \/ \A j \in 1..(LastDot(s) - 1) : s[j] = "."
    THEN Len(s) + 1
    ELSE LastDot(s)

SplitRoot(s) == SubSeq(s, 1, SplitExtAt(s) - 1)

SplitExt(s) == SubSeq(s, SplitExtAt(s), Len(s))

\* f"{i:06d}" for 0 <= i < 10^6
Digit(d) == CodePoints[d + 3]

Format06d(i) ==
    << Digit((i \div 100000) % 10), Digit((i \div 10000) % 10),
       Digit((i \div 1000) % 10),   Digit((i \div 100) % 10),
       Digit((i \div 10) % 10),     Digit(i % 10) >>

\* list.sort() / list.sort(key=...): a stable sort of items [key, val] by
\* their str keys.  Insertion from the left keeps equal keys in input order.
RECURSIVE InsertSorted(_, _)
InsertSorted(x, sorted) ==
    IF sorted = << >> THEN << x >>
    ELSE IF StrLess(x.key, sorted[Len(sorted)].key)
         THEN Append(InsertSorted(x, SubSeq(sorted, 1, Len(sorted) - 1)),
                     sorted[Len(sorted)])
         ELSE Append(sorted, x)

RECURSIVE StableSort(_)
StableSort(s) ==
    IF s = << >> THEN << >>
    ELSE InsertSorted(s[Len(s)], StableSort(SubSeq(s, 1, Len(s) - 1)))

\* The orders in which the elements of a finite set can be visited
RECURSIVE Perms(_)
Perms(S) ==
    IF S = {} THEN { << >> }
    ELSE UNION { { << x >> \o q : q \in Perms(S \ {x}) } : x \in S }

(***************************************************************************)
(* Values.  Every Python str other than a file name is a tagged tuple:     *)
(* << >> is "", None is <<"None">>, a digest is <<"sha256", b>>, a base64  *)
(* text is <<"base64", b>>, a plain text is <<"text", t>>, a JSON text is  *)
(* <<"json", obj>> with obj a record of exactly the keys it holds.         *)
(***************************************************************************)

None == << "None" >>

EmptyStr == << >>

\* bool(x) of a str or None
Truthy(x) == x # None /\ x # EmptyStr

\* str.strip(): a whitespace-only text becomes ""
Strip(s) == IF Len(s) = 2 /\ s[1] = "text" /\ s[2] \in {"", " "} THEN EmptyStr ELSE s

\* s.strip().startswith('{')
StartsWithBrace(s) == Len(s) > 0 /\ s[1] \in {"json", "{bad"}

\* json.loads(s) succeeds
JsonParses(s) == Len(s) = 2 /\ s[1] = "json"

\* d.get(k, default)
Get(d, k, default) == IF k \in DOMAIN d THEN d[k] ELSE default

\* d[k] = v
SetKey(d, k, v) == [x \in DOMAIN d \cup {k} |-> IF x = k THEN v ELSE d[x]]

\* hashlib.sha256(bytes).hexdigest(): distinct contents, distinct digests
Sha256Hex(b) == << "sha256", b >>

\* base64.b64encode(bytes).decode('utf-8')
B64Encode(b) == << "base64", b >>

\* base64.b64decode(s) returns bytes
B64Decodable(s) == Len(s) = 2 /\ s[1] = "base64"

B64Decode(s) == s[2]

(***************************************************************************)
(* The file system.  A path is [dir, name], dir being the directory with   *)
(* its trailing separator; fs maps each existing path to its file: an      *)
(* image or other binary file [bytes, readable], or a JSON document [doc]. *)
(***************************************************************************)

\* os.path.join(root, file)
Join(dir, name) == [dir |-> dir, name |-> name]

\* the path as the str that list.sort() compares
PathStr(p) == p.dir \o p.name

\* os.path.dirname / os.path.basename
DirName(p) == p.dir

BaseName(p) == p.name

IsPrefix(a, b) == Len(a) <= Len(b) /\ SubSeq(b, 1, Len(a)) = a

\* the directory tree rooted at a directory name (without separator)
DirOf(d) == d \o << "/" >>

\* the directories that exist on disk
WorkDir == << "W" >>

SubDir == << "W", "/", "s" >>

ExistingDirs == { WorkDir, SubDir }

IsJson(f) == "doc" \in DOMAIN f

BinFile(b) == [bytes |-> b, readable |-> TRUE]

JsonFile(d) == [doc |-> d]

\* os.path.getsize in bytes: contents 1 and 2 are small, content 3 is a
\* file above every base64 ceiling
FileSizeOf(b) == IF b = 3 THEN 30 * 1024 * 1024 ELSE b * 1024

(***************************************************************************)
(* class ImageInfo                                                         *)
(***************************************************************************)

\* ImageInfo.__init__
ImageInfo(path) ==
    [ path |-> path, filename |-> BaseName(path), hash |-> None,
      annotation |-> EmptyStr, image_data |-> None, is_loaded |-> FALSE,
      base64_data |-> None, base64_calculated |-> FALSE ]

\* open(self.path, 'rb') succeeds.  Catalog entries are never JSON documents.
CanRead(files, path) ==
    path \in DOMAIN files /\ ~IsJson(files[path]) /\ files[path].readable

\* calculate_hash reading the file on every call
calculate_hash_unmemoized(im, files) ==
    [im EXCEPT !.hash = IF CanRead(files, im.path)
                        THEN Sha256Hex(files[im.path].bytes)
                        ELSE EmptyStr]

\* ImageInfo.calculate_hash: memoized on hash being None; "" when unreadable
calculate_hash(im, files) ==
    IF im.hash = None
    THEN [im EXCEPT !.hash = IF CanRead(files, im.path)
                             THEN Sha256Hex(files[im.path].bytes)
                             ELSE EmptyStr]
    ELSE im

\* ImageInfo.load_image: QPixmap(path) never raises; an unreadable file
\* gives a null pixmap
load_image(im, files) ==
    IF ~im.is_loaded
    THEN [im EXCEPT !.is_loaded = TRUE,
                    !.image_data = IF CanRead(files, im.path)
                                   THEN << "pixmap", files[im.path].bytes >>
                                   ELSE << "pixmap", 0 >>]
    ELSE im

\* ImageInfo.get_file_size: 0 when os.path.getsize raises
get_file_size(im, files) ==
    IF im.path \in DOMAIN files /\ ~IsJson(files[im.path])
    THEN FileSizeOf(files[im.path].bytes)
    ELSE 0

\* ImageInfo.calculate_base64
calculate_base64(im, files, enable, max_file_size_mb) ==
    IF ~enable
    THEN [im EXCEPT !.base64_data = None, !.base64_calculated = TRUE]
    ELSE IF ~im.base64_calculated
    THEN IF im.path \in DOMAIN files
            /\ get_file_size(im, files) > max_file_size_mb * 1024 * 1024
         THEN [im EXCEPT !.base64_data = None, !.base64_calculated = TRUE]
         ELSE IF CanRead(files, im.path)
         THEN [im EXCEPT !.base64_data = B64Encode(files[im.path].bytes),
                         !.base64_calculated = TRUE]
         ELSE [im EXCEPT !.base64_data = None, !.base64_calculated = TRUE]
    ELSE im

(***************************************************************************)
(* Directory walks                                                         *)
(***************************************************************************)

\* DataManager.SUPPORTED_FORMATS
SUPPORTED_FORMATS ==
    { << ".", "j", "p", "g" >>, << ".", "j", "p", "e", "g" >>, << ".", "p", "n", "g" >>,
      << ".", "b", "m", "p" >>, << ".", "t", "i", "f", "f" >>, << ".", "t", "i", "f" >> }

JsonExt == << ".", "j", "s", "o", "n" >>

LabelsJson == << "l", "a", "b", "e", "l", "s" >> \o JsonExt

LabelsCacheJson == << "l", "a", "b", "e", "l", "s", "_", "c", "a", "c", "h", "e" >> \o JsonExt

KeysSettingJson ==
    << "k", "e", "y", "s", "_", "s", "e", "t", "t", "i", "n", "g" >> \o JsonExt

\* any(file.lower().endswith(ext) for ext in self.SUPPORTED_FORMATS)
IsImageName(name) == \E ext \in SUPPORTED_FORMATS : EndsWith(Lower(name), ext)

\* file.lower().endswith('.json')
IsJsonName(name) == EndsWith(Lower(name), JsonExt)

\* the files os.walk(directory) yields: those in the directory or below it
Walk(files, directory) ==
    { p \in DOMAIN files : IsPrefix(DirOf(directory), p.dir) }

\* os.walk is top-down: a directory's files come before those of the
\* directories below it; within a directory the order is the file system's
WalkOrders(paths) ==
    { o \in Perms(paths) :
        \A i, j \in 1..Len(o) :
            (i < j) => ~(o[j].dir # o[i].dir /\ IsPrefix(o[j].dir, o[i].dir)) }

\* image_files.sort() / json_files.sort(): by the full path str.  The paths
\* are distinct, so the sorted list is the one that takes the least first.
RECURSIVE SortPaths(_)
SortPaths(paths) ==
    IF paths = {} THEN << >>
    ELSE LET least == CHOOSE p \in paths :
                          \A q \in paths : StrLeq(PathStr(p), PathStr(q))
         IN  << least >> \o SortPaths(paths \ {least})

\* mutant: the list is left as the appends made it
SortImagesByLowerName_unsorted(ims) == ims

\* self.images.sort(key=lambda x: x.filename.lower())
SortImagesByLowerName(ims) ==
    LET items == [i \in 1..Len(ims) |-> [key |-> Lower(ims[i].filename), val |-> ims[i]]]
        sorted == StableSort(items)
    IN  [i \in 1..Len(sorted) |-> sorted[i].val]

(***************************************************************************)
(* DataManager: scan and orphan recovery                                   *)
(***************************************************************************)

\* open(target_path, 'wb') succeeds: the directory of the target exists.  A
\* file name holding a separator names a directory below the sidecar's, and
\* the directories so named are not on disk.
CanCreate(target_path) ==
    \A i \in 1..Len(target_path.name) : target_path.name[i] # "/"

\* mutant: the target is written whether or not it exists
restore_image_from_base64_overwriting(files, base64_data, filename, target_dir) ==
    LET target_path == Join(target_dir, filename) IN
    IF ~B64Decodable(base64_data)
    THEN [files |-> files, path |-> target_path, restored |-> FALSE]
    ELSE IF ~CanCreate(target_path)
    THEN [files |-> files, path |-> target_path, restored |-> FALSE]
    ELSE [files |-> [q \in DOMAIN files \cup {target_path} |->
                        IF q = target_path THEN BinFile(B64Decode(base64_data))
                        ELSE files[q]],
          path |-> target_path, restored |-> TRUE]

\* DataManager._restore_image_from_base64: the file system afterwards and
\* the returned path (restored is FALSE where the code returns None: on a
\* failure to decode or to write, or when the target exists)
restore_image_from_base64(files, base64_data, filename, target_dir) ==
    LET target_path == Join(target_dir, filename) IN
    IF ~B64Decodable(base64_data)
    THEN [files |-> files, path |-> target_path, restored |-> FALSE]
    ELSE IF target_path \in DOMAIN files
    THEN [files |-> files, path |-> target_path, restored |-> FALSE]
    ELSE IF ~CanCreate(target_path)
    THEN [files |-> files, path |-> target_path, restored |-> FALSE]
    ELSE [files |-> [q \in DOMAIN files \cup {target_path} |->
                        IF q = target_path THEN BinFile(B64Decode(base64_data))
                        ELSE files[q]],
          path |-> target_path, restored |-> TRUE]

\* the body of the loop of restore_missing_images for one walked file
restore_one(acc, json_path, existing_image_names) ==
    LET file == BaseName(json_path)
        base_name == SplitRoot(file)
        f == acc.files[json_path]
    IN
    IF ~(IsJsonName(file) /\ file \notin {LabelsJson, LabelsCacheJson})
    THEN acc
    ELSE IF Lower(base_name) \in existing_image_names
    THEN acc
    ELSE IF ~IsJson(f)
    THEN acc  \* json.load raises: logged, next file
    ELSE IF ~( "base64_data" \in DOMAIN f.doc /\ Truthy(f.doc.base64_data)
               /\ "filename" \in DOMAIN f.doc )
    THEN acc
    ELSE LET r == restore_image_from_base64(acc.files, f.doc.base64_data,
                                            f.doc.filename, DirName(json_path))
         IN  IF ~r.restored
             THEN acc
             ELSE [ files |-> r.files,
                    images |-> Append(acc.images, ImageInfo(r.path)),
                    restored_count |-> acc.restored_count + 1 ]

\* mutant: one try around the whole walk, the first sidecar json.load
\* rejects ends the pass
RECURSIVE restore_loop_aborting(_, _, _)
restore_loop_aborting(acc, order, existing_image_names) ==
    IF order = << >> THEN acc
    ELSE IF /\ IsJsonName(BaseName(Head(order)))
            /\ Lower(SplitRoot(BaseName(Head(order)))) \notin existing_image_names
            /\ ~IsJson(acc.files[Head(order)])
    THEN acc
    ELSE restore_loop_aborting(restore_one(acc, Head(order), existing_image_names),
                               Tail(order), existing_image_names)

RECURSIVE restore_loop(_, _, _)
restore_loop(acc, order, existing_image_names) ==
    IF order = << >> THEN acc
    ELSE restore_loop(restore_one(acc, Head(order), existing_image_names),
                      Tail(order), existing_image_names)

\* DataManager.restore_missing_images, the walk visiting files in `order`
restore_missing_images(ims, files, work_dir, order) ==
    IF work_dir = EmptyStr
    THEN [files |-> files, images |-> ims]
    ELSE LET existing_image_names ==
                 { Lower(SplitRoot(ims[i].filename)) : i \in 1..Len(ims) }
             r == restore_loop([files |-> files, images |-> ims, restored_count |-> 0],
                               order, existing_image_names)
         IN  [ files |-> r.files,
               images |-> IF r.restored_count > 0
                          THEN SortImagesByLowerName(r.images)
                          ELSE r.images ]

\* scan_images, lines 227-241: the ImageInfo list of the image files found
scan_image_files(files, work_dir) ==
    LET image_files == SortPaths({ p \in Walk(files, work_dir) : IsImageName(p.name) })
    IN  [i \in 1..Len(image_files) |-> ImageInfo(image_files[i])]

(***************************************************************************)
(* DataManager: labels and sidecar loading                                 *)
(***************************************************************************)

\* for label in labels: if label not in self.available_labels: append
RECURSIVE add_labels(_, _)
add_labels(available, labels) ==
    IF labels = << >> THEN available
    ELSE add_labels(IF \E i \in 1..Len(available) : available[i] = Head(labels)
                    THEN available
                    ELSE Append(available, Head(labels)),
                    Tail(labels))

\* the label cache of a working directory ("" joins to a path that cannot
\* be opened)
labels_cache_file(work_dir) == Join(DirOf(work_dir), LabelsCacheJson)

\* save_labels_cache writing nothing
save_labels_cache_dropped(files, work_dir, available) == files

\* DataManager.save_labels_cache: a failed open is logged and ignored
save_labels_cache(files, work_dir, available) ==
    IF work_dir \notin ExistingDirs
    THEN files
    ELSE [q \in DOMAIN files \cup {labels_cache_file(work_dir)} |->
            IF q = labels_cache_file(work_dir)
            THEN JsonFile([available_labels |-> available])
            ELSE files[q]]

\* mutant: the legacy annotation is not copied into describe
reconstructed_data_no_fallback(doc, compat) ==
    LET d1 == IF "describe" \in DOMAIN doc /\ Truthy(doc.describe)
              THEN [describe |-> doc.describe] ELSE << >>
        d2 == IF "label" \in DOMAIN doc /\ doc.label # << >>
              THEN SetKey(d1, "label", doc.label) ELSE d1
        d3 == IF compat /\ "annotation" \in DOMAIN doc /\ Truthy(doc.annotation)
              THEN SetKey(d2, "annotation", doc.annotation)
              ELSE d2
    IN  d3

\* load_individual_annotations, lines 742-760: the unified annotation of
\* one sidecar document
reconstructed_data(doc, compat) ==
    LET d1 == IF "describe" \in DOMAIN doc /\ Truthy(doc.describe)
              THEN [describe |-> doc.describe] ELSE << >>
        d2 == IF "label" \in DOMAIN doc /\ doc.label # << >>
              THEN SetKey(d1, "label", doc.label) ELSE d1
        d3 == IF compat /\ "annotation" \in DOMAIN doc /\ Truthy(doc.annotation)
              THEN LET d == SetKey(d2, "annotation", doc.annotation)
                   IN  IF "describe" \notin DOMAIN d
                       THEN SetKey(d, "describe", doc.annotation) ELSE d
              ELSE d2
    IN  d3

\* json.dumps(obj): the JSON text of an object
JsonDumps(obj) == << "json", obj >>

\* the body of the loop of load_individual_annotations for one walked file
load_one(acc, path, files, compat) ==
    LET file == BaseName(path)
        f == files[path]
    IN
    IF ~(IsJsonName(file) /\ file # LabelsJson) THEN acc
    ELSE IF ~IsJson(f) THEN acc
    ELSE IF "hash" \notin DOMAIN f.doc THEN acc
    ELSE LET rec == reconstructed_data(f.doc, compat) IN
         IF DOMAIN rec = {} THEN acc
         ELSE [ labels_data |-> SetKey(acc.labels_data, f.doc.hash, JsonDumps(rec)),
                by_name |-> IF "filename" \in DOMAIN f.doc
                            THEN SetKey(acc.by_name, f.doc.filename, JsonDumps(rec))
                            ELSE acc.by_name,
                available |-> IF "label" \in DOMAIN rec
                              THEN add_labels(acc.available, rec.label)
                              ELSE acc.available,
                loaded_count |-> acc.loaded_count + 1 ]

RECURSIVE load_loop(_, _, _, _)
load_loop(acc, order, files, compat) ==
    IF order = << >> THEN acc
    ELSE load_loop(load_one(acc, Head(order), files, compat), Tail(order), files, compat)

\* DataManager.load_labels with load_individual_annotations: labels_data is
\* cleared, every sidecar carrying a hash is loaded, the entries of the
\* current list are associated by file name, and the label cache is saved
\* when anything was loaded.  (The V0.0.2 labels.json is not in the model's
\* directories.)
load_labels(ims, files, work_dir, available, compat, order) ==
    LET r == IF work_dir = EmptyStr
             THEN [labels_data |-> << >>, by_name |-> << >>,
                   available |-> available, loaded_count |-> 0]
             ELSE load_loop([labels_data |-> << >>, by_name |-> << >>,
                             available |-> available, loaded_count |-> 0],
                            order, files, compat)
    IN  [ labels_data |-> r.labels_data,
          images |-> [i \in 1..Len(ims) |->
                        IF ims[i].filename \in DOMAIN r.by_name
                        THEN [ims[i] EXCEPT !.annotation = r.by_name[ims[i].filename]]
                        ELSE ims[i]],
          available |-> r.available,
          files |-> IF r.loaded_count > 0
                    THEN save_labels_cache(files, work_dir, r.available)
                    ELSE files ]

\* extract_labels_from_annotations, lines 874-893: the labels one sidecar
\* document contributes to the extracted set
labels_of_doc(doc, compat) ==
    LET SeqSet(q) == { q[i] : i \in 1..Len(q) }
        s1 == IF "label" \in DOMAIN doc THEN SeqSet(doc.label) ELSE {}
        s2 == IF compat /\ "labels" \in DOMAIN doc THEN SeqSet(doc.labels) ELSE {}
        s3 == IF compat /\ "annotation" \in DOMAIN doc /\ Truthy(doc.annotation)
                 /\ StartsWithBrace(Strip(doc.annotation)) /\ JsonParses(doc.annotation)
              THEN IF "label" \in DOMAIN doc.annotation[2]
                   THEN SeqSet(doc.annotation[2].label)
                   ELSE IF "labels" \in DOMAIN doc.annotation[2]
                   THEN SeqSet(doc.annotation[2].labels)
                   ELSE {}
              ELSE {}
    IN  s1 \cup s2 \cup s3

\* DataManager.extract_labels_from_annotations: the set of labels found
extracted_labels(files, work_dir, compat) ==
    UNION { labels_of_doc(files[p].doc, compat) :
              p \in { q \in Walk(files, work_dir) :
                        /\ IsJsonName(q.name)
                        /\ q.name \notin {LabelsJson, LabelsCacheJson}
                        /\ IsJson(files[q]) } }

\* DataManager.load_labels_cache with extract_labels_from_annotations; the
\* extracted Python set is iterated in the order label_order
load_labels_cache(files, work_dir, available, compat, label_order) ==
    LET cache == labels_cache_file(work_dir)
        cached == IF cache \in DOMAIN files
                  THEN IF IsJson(files[cache])
                       THEN Get(files[cache].doc, "available_labels", << >>)
                       ELSE << >>
                  ELSE available
        merged == IF work_dir = EmptyStr THEN cached ELSE add_labels(cached, label_order)
    IN  [ available |-> merged,
          files |-> IF work_dir # EmptyStr /\ label_order # << >>
                    THEN save_labels_cache(files, work_dir, merged)
                    ELSE files ]

(***************************************************************************)
(* DataManager: saving, hash reconciliation, navigation helpers            *)
(***************************************************************************)

\* DataManager._detect_optimal_file_size_limit without psutil
max_base64_file_size_mb == 10

\* save_single_annotation, lines 653-693: the annotation fields added to the
\* sidecar document
annotation_fields(data, annotation, compat) ==
    IF StartsWithBrace(Strip(annotation)) /\ JsonParses(annotation)
    THEN LET parsed == annotation[2]
             d1 == IF "describe" \in DOMAIN parsed
                   THEN SetKey(data, "describe", parsed.describe) ELSE data
             d2 == IF "label" \in DOMAIN parsed
                   THEN SetKey(d1, "label", parsed.label) ELSE d1
             d3 == IF compat /\ "annotation" \in DOMAIN parsed
                   THEN SetKey(d2, "annotation", parsed.annotation) ELSE d2
             d4 == IF compat /\ "labels" \in DOMAIN parsed /\ "label" \notin DOMAIN parsed
                   THEN SetKey(d3, "label", parsed.labels) ELSE d3
         IN  d4
    ELSE IF Truthy(Strip(annotation))
    THEN SetKey(SetKey(data, "annotation", annotation), "describe", annotation)
    ELSE data

\* save_single_annotation, lines 662-681: the labels a saved annotation adds
\* to the available labels
annotation_labels(annotation, compat) ==
    IF StartsWithBrace(Strip(annotation)) /\ JsonParses(annotation)
    THEN IF "label" \in DOMAIN annotation[2] THEN << annotation[2].label >>
         ELSE IF compat /\ "labels" \in DOMAIN annotation[2]
         THEN << annotation[2].labels >>
         ELSE << >>
    ELSE << >>

\* mutant: the sidecar is named after the whole file name
sidecar_path_whole_name(im, custom_save_path) ==
    Join(IF custom_save_path # EmptyStr /\ custom_save_path \in ExistingDirs
         THEN DirOf(custom_save_path)
         ELSE DirName(im.path),
         im.filename \o JsonExt)

\* save_single_annotation, lines 630-638: where the sidecar is written
sidecar_path(im, custom_save_path) ==
    Join(IF custom_save_path # EmptyStr /\ custom_save_path \in ExistingDirs
         THEN DirOf(custom_save_path)
         ELSE DirName(im.path),
         SplitRoot(im.filename) \o JsonExt)

\* DataManager.save_single_annotation: the entry, the available labels and
\* the files afterwards
save_single_annotation(im, files, work_dir, custom_save_path, available, enable, compat) ==
    LET im1 == IF enable
               THEN calculate_base64(im, files, enable, max_base64_file_size_mb)
               ELSE im
        base64_data == IF enable THEN im1.base64_data ELSE None
        data == [ filename |-> im.filename, hash |-> im.hash,
                  file_size |-> get_file_size(im, files),
                  base64_data |-> base64_data ]
        added == annotation_labels(im.annotation, compat)
        available1 == IF added = << >> THEN available ELSE add_labels(available, added[1])
        files1 == IF added = << >> THEN files
                  ELSE save_labels_cache(files, work_dir, available1)
        json_path == sidecar_path(im, custom_save_path)
    IN  [ image |-> im1,
          available |-> available1,
          files |-> [q \in DOMAIN files1 \cup {json_path} |->
                       IF q = json_path
                       THEN JsonFile(annotation_fields(data, im.annotation, compat))
                       ELSE files1[q]] ]

\* _check_and_update_annotation_file, lines 354-362: the first walked
\* directory holding <basename>.json (top-down: the shallowest one)
annotation_files(im, files, work_dir) ==
    { p \in Walk(files, work_dir) : p.name = SplitRoot(im.filename) \o JsonExt }

find_annotation_file(im, files, work_dir) ==
    CHOOSE p \in annotation_files(im, files, work_dir) :
        \A q \in annotation_files(im, files, work_dir) : Len(p.dir) <= Len(q.dir)

\* _check_and_update_annotation_file rewriting the sidecar whether or not the
\* stored hash differs
check_and_update_annotation_file_unconditional(im, files, work_dir, enable) ==
    LET json_path == find_annotation_file(im, files, work_dir)
        same == [image |-> im, files |-> files]
    IN
    IF ~Truthy(im.hash) THEN same
    ELSE IF annotation_files(im, files, work_dir) = {} THEN same
    ELSE IF ~IsJson(files[json_path]) THEN same
    ELSE LET doc == files[json_path].doc
             im1 == IF enable
                    THEN calculate_base64(im, files, enable, max_base64_file_size_mb)
                    ELSE im
             d1 == SetKey(doc, "hash", im.hash)
             d2 == IF enable /\ Truthy(im1.base64_data)
                   THEN SetKey(d1, "base64_data", im1.base64_data) ELSE d1
             d3 == SetKey(d2, "file_size", get_file_size(im, files))
         IN  [ image |-> im1,
               files |-> [files EXCEPT ![json_path] = JsonFile(d3)] ]

\* _check_and_update_annotation_file writing a sidecar built anew from the
\* entry in place of the document it has read
check_and_update_annotation_file_rebuilding(im, files, work_dir, enable) ==
    LET json_path == find_annotation_file(im, files, work_dir)
        same == [image |-> im, files |-> files]
    IN
    IF ~Truthy(im.hash) THEN same
    ELSE IF annotation_files(im, files, work_dir) = {} THEN same
    ELSE IF ~IsJson(files[json_path]) THEN same
    ELSE LET doc == files[json_path].doc
             stored_hash == Get(doc, "hash", EmptyStr)
         IN
         IF ~(Truthy(stored_hash) /\ stored_hash # im.hash) THEN same
         ELSE LET im1 == IF enable
                         THEN calculate_base64(im, files, enable, max_base64_file_size_mb)
                         ELSE im
                  d1 == [ filename |-> im.filename, hash |-> im.hash ]
                  d2 == IF enable /\ Truthy(im1.base64_data)
                        THEN SetKey(d1, "base64_data", im1.base64_data) ELSE d1
                  d3 == SetKey(d2, "file_size", get_file_size(im, files))
              IN  [ image |-> im1,
                    files |-> [files EXCEPT ![json_path] = JsonFile(d3)] ]

\* DataManager._check_and_update_annotation_file: the entry and the files
\* afterwards
check_and_update_annotation_file(im, files, work_dir, enable) ==
    LET json_path == find_annotation_file(im, files, work_dir)
        same == [image |-> im, files |-> files]
    IN
    IF ~Truthy(im.hash) THEN same
    ELSE IF annotation_files(im, files, work_dir) = {} THEN same
    ELSE IF ~IsJson(files[json_path]) THEN same
    ELSE LET doc == files[json_path].doc
             stored_hash == Get(doc, "hash", EmptyStr)
         IN
         IF ~(Truthy(stored_hash) /\ stored_hash # im.hash) THEN same
         ELSE LET im1 == IF enable
                         THEN calculate_base64(im, files, enable, max_base64_file_size_mb)
                         ELSE im
                  d1 == SetKey(doc, "hash", im.hash)
                  d2 == IF enable /\ Truthy(im1.base64_data)
                        THEN SetKey(d1, "base64_data", im1.base64_data) ELSE d1
                  d3 == SetKey(d2, "file_size", get_file_size(im, files))
              IN  [ image |-> im1,
                    files |-> [files EXCEPT ![json_path] = JsonFile(d3)] ]

\* find_first_unlabeled, lines 499-515: the entry has annotation content
has_annotation(annotation) ==
    IF Truthy(annotation) /\ Truthy(Strip(annotation))
    THEN IF StartsWithBrace(Strip(annotation))
         THEN IF JsonParses(annotation)
              THEN \/ Truthy(Strip(Get(annotation[2], "describe", EmptyStr)))
                   \/ Get(annotation[2], "label", << >>) # << >>
                   \/ Get(annotation[2], "labels", << >>) # << >>
              ELSE TRUE
         ELSE TRUE
    ELSE FALSE

\* DataManager._detect_annotation_mode
detect_annotation_mode(annotation_text, compat) ==
    IF ~Truthy(Strip(annotation_text)) THEN None
    ELSE IF ~StartsWithBrace(Strip(annotation_text)) THEN None
    ELSE IF ~JsonParses(annotation_text) THEN << "description" >>
    ELSE LET data == annotation_text[2]
             has_describe == Truthy(Strip(Get(data, "describe", EmptyStr)))
             has_label == Get(data, "label", << >>) # << >>
         IN  IF compat /\ ~has_describe /\ ~has_label
                /\ Truthy(Strip(Get(data, "annotation", EmptyStr)))
             THEN << "description" >>
             ELSE IF has_describe /\ has_label THEN << "mixed" >>
             ELSE IF has_label THEN << "label" >>
             ELSE IF has_describe THEN << "description" >>
             ELSE None

\* mutant: the scan settles on the last unlabeled entry
first_unlabeled_index_last(ims) ==
    IF \E i \in 1..Len(ims) : ~has_annotation(ims[i].annotation)
    THEN (CHOOSE i \in 1..Len(ims) :
            /\ ~has_annotation(ims[i].annotation)
            /\ \A j \in (i+1)..Len(ims) : has_annotation(ims[j].annotation)) - 1
    ELSE 0

\* find_first_unlabeled, lines 498-533: the index (0-based) the scan settles on
first_unlabeled_index(ims) ==
    IF \E i \in 1..Len(ims) : ~has_annotation(ims[i].annotation)
    THEN (CHOOSE i \in 1..Len(ims) :
            /\ ~has_annotation(ims[i].annotation)
            /\ \A j \in 1..(i-1) : has_annotation(ims[j].annotation)) - 1
    ELSE 0

\* find_first_unlabeled, lines 522-524 and 536: the mode it returns, that of
\* the first annotated entry for which a mode is detected
detected_mode(ims, compat) ==
    LET Detects(i) == /\ has_annotation(ims[i].annotation)
                      /\ detect_annotation_mode(ims[i].annotation, compat) # None
    IN  IF \E i \in 1..Len(ims) : Detects(i)
        THEN detect_annotation_mode(
                 ims[CHOOSE i \in 1..Len(ims) :
                        Detects(i) /\ \A j \in 1..(i-1) : ~Detects(j)].annotation,
                 compat)
        ELSE None

(***************************************************************************)
(* DataManager.rename_all_images                                           *)
(***************************************************************************)

ImgPrefix == << "I", "M", "G", "_" >>

\* os.rename(old_path, new_path)
os_rename(files, old_path, new_path) ==
    [q \in (DOMAIN files \ {old_path}) \cup {new_path} |->
        IF q = new_path THEN files[old_path] ELSE files[q]]

\* rename_all_images, lines 943-968: one image of the enumeration, i 0-based.
\* acc.overwritten collects the paths written over while a file was there,
\* acc.moved the os.rename calls made on images.
rename_image(acc, old_path, i) ==
    LET old_filename == BaseName(old_path)
        old_name == SplitRoot(old_filename)
        ext == SplitExt(old_filename)
        new_filename == ImgPrefix \o Format06d(i) \o ext
        new_path == Join(DirName(old_path), new_filename)
    IN
    IF old_filename = new_filename THEN acc
    ELSE IF new_path \in DOMAIN acc.files THEN acc
    ELSE [acc EXCEPT !.files = os_rename(acc.files, old_path, new_path),
                     !.rename_map = SetKey(acc.rename_map, old_name, ImgPrefix \o Format06d(i)),
                     !.renamed_count = acc.renamed_count + 1,
                     !.moved = acc.moved \cup {[old |-> old_path, new |-> new_path]}]

RECURSIVE rename_images(_, _, _)
rename_images(acc, image_files, i) ==
    IF i >= Len(image_files) THEN acc
    ELSE rename_images(rename_image(acc, image_files[i + 1], i), image_files, i + 1)

\* rename_all_images, lines 971-1004: one sidecar of the enumeration
rename_json(acc, json_path) ==
    LET json_name == SplitRoot(BaseName(json_path)) IN
    IF json_name \notin DOMAIN acc.rename_map THEN acc
    ELSE IF ~IsJson(acc.files[json_path]) THEN acc  \* json.load raises: logged
    ELSE LET new_json_path == Join(DirName(json_path), acc.rename_map[json_name] \o JsonExt)
             json_data == acc.files[json_path].doc
             new_data ==
                 IF "filename" \in DOMAIN json_data
                    /\ SplitRoot(json_data.filename) \in DOMAIN acc.rename_map
                 THEN [json_data EXCEPT !.filename =
                          acc.rename_map[SplitRoot(json_data.filename)]
                              \o SplitExt(json_data.filename)]
                 ELSE json_data
             written == [q \in DOMAIN acc.files \cup {new_json_path} |->
                            IF q = new_json_path THEN JsonFile(new_data) ELSE acc.files[q]]
         IN  [acc EXCEPT !.files = [q \in DOMAIN written \ {json_path} |-> written[q]],
                         !.overwritten = IF new_json_path \in DOMAIN acc.files
                                         THEN acc.overwritten \cup {new_json_path}
                                         ELSE acc.overwritten,
                         !.renamed_count = acc.renamed_count + 1]

RECURSIVE rename_jsons(_, _)
rename_jsons(acc, json_files) ==
    IF json_files = << >> THEN acc
    ELSE rename_jsons(rename_json(acc, Head(json_files)), Tail(json_files))

\* DataManager.rename_all_images: the files afterwards, the count returned
\* and the paths overwritten
rename_all_images(files, work_dir) ==
    IF work_dir = EmptyStr
    THEN [files |-> files, rename_map |-> << >>, renamed_count |-> 0, overwritten |-> {},
          moved |-> {}]
    ELSE LET walked == Walk(files, work_dir)
             image_files == SortPaths({ p \in walked : IsImageName(p.name) })
             json_files == SortPaths({ p \in walked :
                              /\ ~IsImageName(p.name)
                              /\ IsJsonName(p.name)
                              /\ p.name \notin {LabelsJson, LabelsCacheJson, KeysSettingJson} })
         IN  rename_jsons(
                 rename_images([files |-> files, rename_map |-> << >>,
                                renamed_count |-> 0, overwritten |-> {}, moved |-> {}],
                               image_files, 0),
                 json_files)

(***************************************************************************)
(* State                                                                   *)
(***************************************************************************)

VARIABLES
    fs,                  \* the files on disk: path -> file
    work_directory,      \* DataManager.work_directory
    custom_save_path,    \* DataManager.custom_save_path
    enable_base64,       \* DataManager.enable_base64
    compatibility_mode,  \* DataManager.compatibility_mode
    images,              \* DataManager.images: the list shared with the worker
    current_index,       \* DataManager.current_index
    labels_data,         \* DataManager.labels_data: hash -> annotation str
    available_labels,    \* DataManager.available_labels
    batch_size,          \* DataManager.batch_size
    hash_thread,         \* DataManager.hash_thread: index into threads, 0 for None
    threads,             \* every HashCalculationThread created so far
    events,              \* signals of the workers queued for the foreground
    pc,                  \* where the foreground is: idle, or inside scan_images
    scans,               \* how many scans were started
    last                 \* the call that made the last step: op, arg, ret, overwritten

vars == << fs, work_directory, custom_save_path, enable_base64, compatibility_mode,
           images, current_index, labels_data, available_labels, batch_size,
           hash_thread, threads, events, pc, scans, last >>

config == << custom_save_path, enable_base64, compatibility_mode >>

Call(op, arg, ret) == [op |-> op, arg |-> arg, ret |-> ret, overwritten |-> {}]

\* QThread.isRunning(): from start() until run() has returned or raised
IsRunning(th) == th.state \in {"started", "running"}

\* DataManager.DEFAULT_BATCH_SIZE
DEFAULT_BATCH_SIZE == 100

\* DataManager.__init__ on a directory tree `files`
InitWith(files) ==
    /\ fs = files
    /\ work_directory = EmptyStr
    /\ custom_save_path = EmptyStr
    /\ enable_base64 = TRUE
    /\ compatibility_mode = FALSE
    /\ images = << >>
    /\ current_index = 0
    /\ labels_data = << >>
    /\ available_labels = << >>
    /\ batch_size = DEFAULT_BATCH_SIZE
    /\ hash_thread = 0
    /\ threads = << >>
    /\ events = << >>
    /\ pc = "idle"
    /\ scans = 0
    /\ last = Call("__init__", None, None)

(***************************************************************************)
(* class HashCalculationThread                                             *)
(***************************************************************************)

\* HashCalculationThread.__init__ followed by start()
HashCalculationThread(enable, max_file_size_mb) ==
    [ state |-> "started", should_stop |-> FALSE, i |-> 0, total |-> 0,
      enable_base64 |-> enable, max_file_size_mb |-> max_file_size_mb ]

\* run(), line 120: total = len(self.images) as the thread begins to run
WorkerBegin(t) ==
    /\ threads[t].state = "started"
    /\ threads' = [threads EXCEPT ![t].state = "running",
                                  ![t].total = Len(images),
                                  ![t].i = 0]
    /\ last' = Call("run", t, None)
    /\ UNCHANGED << fs, work_directory, config, images, current_index, labels_data,
                    available_labels, batch_size, hash_thread, events, pc, scans >>

\* mutant: the progress signal carries the index instead of the count
iteration_events_index_for_count(t, i, total, before, after) ==
    (IF before.hash = None
     THEN << [sig |-> "hash_calculated", thread |-> t, index |-> i, hash_value |-> after.hash] >>
     ELSE << >>)
    \o << [sig |-> "progress_updated", thread |-> t, current |-> i, total |-> total,
           filename |-> after.filename] >>

\* run(), lines 125-134: the signals one iteration emits
iteration_events(t, i, total, before, after) ==
    (IF before.hash = None
     THEN << [sig |-> "hash_calculated", thread |-> t, index |-> i, hash_value |-> after.hash] >>
     ELSE << >>)
    \o << [sig |-> "progress_updated", thread |-> t, current |-> i + 1, total |-> total,
           filename |-> after.filename] >>

\* the iteration calling calculate_base64 whether or not embedding is enabled
iteration_entry_unguarded(th, im, files) ==
    calculate_base64(calculate_hash(im, files), files, th.enable_base64,
                     th.max_file_size_mb)

\* run(), lines 125-132: what one iteration does to the entry it holds
iteration_entry(th, im, files) ==
    IF th.enable_base64
    THEN calculate_base64(calculate_hash(im, files), files, th.enable_base64,
                          th.max_file_size_mb)
    ELSE calculate_hash(im, files)

\* mutant: the loop does not look at the stop flag
WorkerIter_ignoring_stop(t) ==
    /\ threads[t].state = "running"
    /\ threads[t].i < threads[t].total
    /\ IF threads[t].i >= Len(images)
       THEN /\ threads' = [threads EXCEPT ![t].state = "raised"]
            /\ UNCHANGED << images, events >>
       ELSE LET i == threads[t].i
                im == iteration_entry(threads[t], images[i + 1], fs)
            IN  /\ images' = [images EXCEPT ![i + 1] = im]
                /\ events' = events \o iteration_events(t, i, threads[t].total,
                                                        images[i + 1], im)
                /\ threads' = [threads EXCEPT ![t].i = i + 1]
    /\ last' = Call("run", t, None)
    /\ UNCHANGED << fs, work_directory, config, current_index, labels_data,
                    available_labels, batch_size, hash_thread, pc, scans >>

\* run(), lines 121-134: one iteration of the loop.  self.images[i] raises
\* IndexError when the shared list has become shorter than total.
WorkerIter(t) ==
    /\ threads[t].state = "running"
    /\ threads[t].i < threads[t].total
    /\ ~threads[t].should_stop
    /\ IF threads[t].i >= Len(images)
       THEN /\ threads' = [threads EXCEPT ![t].state = "raised"]
            /\ UNCHANGED << images, events >>
       ELSE LET i == threads[t].i
                im == iteration_entry(threads[t], images[i + 1], fs)
            IN  /\ images' = [images EXCEPT ![i + 1] = im]
                /\ events' = events \o iteration_events(t, i, threads[t].total,
                                                        images[i + 1], im)
                /\ threads' = [threads EXCEPT ![t].i = i + 1]
    /\ last' = Call("run", t, None)
    /\ UNCHANGED << fs, work_directory, config, current_index, labels_data,
                    available_labels, batch_size, hash_thread, pc, scans >>

\* mutant: the loop ends one entry early
WorkerFinish_one_entry_early(t) ==
    /\ threads[t].state = "running"
    /\ threads[t].i + 1 >= threads[t].total \/ threads[t].should_stop
    /\ threads' = [threads EXCEPT ![t].state = "finished"]
    /\ events' = Append(events, [sig |-> "finished", thread |-> t])
    /\ last' = Call("run", t, None)
    /\ UNCHANGED << fs, work_directory, config, images, current_index, labels_data,
                    available_labels, batch_size, hash_thread, pc, scans >>

\* run(), lines 122-123 and 136: the loop ends, exhausted or stopped, and
\* finished is emitted
WorkerFinish(t) ==
    /\ threads[t].state = "running"
    /\ threads[t].i >= threads[t].total \/ threads[t].should_stop
    /\ threads' = [threads EXCEPT ![t].state = "finished"]
    /\ events' = Append(events, [sig |-> "finished", thread |-> t])
    /\ last' = Call("run", t, None)
    /\ UNCHANGED << fs, work_directory, config, images, current_index, labels_data,
                    available_labels, batch_size, hash_thread, pc, scans >>

(***************************************************************************)
(* DataManager: scanning                                                   *)
(***************************************************************************)

Min(a, b) == IF a < b THEN a ELSE b

MAX_MEMORY_MB == 1024

MIN_BATCH_SIZE == 20

\* sum of get_file_size over the first sample_size entries (lines 414-416)
RECURSIVE sampled_total_size(_, _, _)
sampled_total_size(ims, files, sample_size) ==
    IF sample_size = 0 THEN 0
    ELSE sampled_total_size(ims, files, sample_size - 1)
         + get_file_size(ims[sample_size], files)

\* mutant: the default batch size without an estimate of the memory
adjust_loading_strategy_unestimated(ims, files) ==
    IF Len(ims) < 100 THEN Len(ims) ELSE DEFAULT_BATCH_SIZE

\* mutant: the batch size is not clamped from below
adjust_loading_strategy_unclamped(ims, files) ==
    LET total_images == Len(ims)
        sample_size == Min(5, total_images)
        total_size == sampled_total_size(ims, files, sample_size)
        ceiling == MAX_MEMORY_MB * 1024 * 1024
    IN  IF total_images < 100 THEN total_images
        ELSE IF total_size > ceiling \div (DEFAULT_BATCH_SIZE \div sample_size)
        THEN sample_size * (ceiling \div total_size)
             + (sample_size * (ceiling % total_size)) \div total_size
        ELSE DEFAULT_BATCH_SIZE

\* DataManager.adjust_loading_strategy.  With avg_size = total_size /
\* sample_size (sample_size is 5 in this branch, a divisor of 100),
\* avg_size * 100 / 2^20 > 1024 is total_size > 2^30 / (100 / sample_size), and
\* int(2^30 / avg_size) is the floor of sample_size * 2^30 / total_size,
\* computed here without leaving 32 bits.
adjust_loading_strategy(ims, files) ==
    LET total_images == Len(ims)
        sample_size == Min(5, total_images)
        total_size == sampled_total_size(ims, files, sample_size)
        ceiling == MAX_MEMORY_MB * 1024 * 1024
        Max(x, y) == IF x >= y THEN x ELSE y
    IN  IF total_images < 100 THEN total_images
        ELSE IF total_size > ceiling \div (DEFAULT_BATCH_SIZE \div sample_size)
        THEN Max(MIN_BATCH_SIZE,
                 sample_size * (ceiling \div total_size)
                 + (sample_size * (ceiling % total_size)) \div total_size)
        ELSE DEFAULT_BATCH_SIZE

\* DataManager.load_batch
load_batch(ims, files, start_index, end_index) ==
    [i \in 1..Len(ims) |->
        IF start_index < i /\ i <= end_index THEN load_image(ims[i], files) ELSE ims[i]]

\* start_hash_calculation, lines 461-465: the new thread is created and started
StartThread ==
    /\ threads' = Append(threads, HashCalculationThread(enable_base64,
                                                        max_base64_file_size_mb))
    /\ hash_thread' = Len(threads) + 1

\* mutant: starts the next worker without stopping the running one
start_hash_calculation_no_wait == StartThread /\ pc' = "idle"

\* DataManager.start_hash_calculation: a running thread is stopped and
\* waited for before the new one is started

start_hash_calculation ==
    IF hash_thread # 0 /\ IsRunning(threads[hash_thread])
    THEN /\ threads' = [threads EXCEPT ![hash_thread].should_stop = TRUE]
         /\ pc' = "wait"
         /\ UNCHANGED hash_thread
    ELSE /\ StartThread
         /\ pc' = "idle"

\* mutant: the scan goes on to enumerate a directory that does not exist
ScanBegin_without_exists_check ==
    /\ images' = << >>
    /\ current_index' = 0
    /\ pc' = "scan"
    /\ scans' = scans + 1

\* scan_images, lines 221-225: the list is cleared in place
ScanBegin ==
    /\ images' = << >>
    /\ current_index' = 0
    /\ pc' = IF work_directory' \in ExistingDirs THEN "scan" ELSE "idle"
    /\ scans' = scans + 1

JsonPaths(files, work_dir) == { p \in Walk(files, work_dir) : IsJsonName(p.name) }

\* DataManager.set_work_directory up to the clearing of the list in scan_images
SetWorkDirectory(directory) ==
    /\ pc = "idle"
    /\ \E order \in WalkOrders(JsonPaths(fs, directory)) :
         LET L == load_labels(images, fs, directory, available_labels,
                              compatibility_mode, order)
         IN  \E label_order \in Perms(extracted_labels(L.files, directory,
                                                       compatibility_mode)) :
               LET C == load_labels_cache(L.files, directory, L.available,
                                          compatibility_mode, label_order)
               IN  /\ fs' = C.files
                   /\ labels_data' = L.labels_data
                   /\ available_labels' = C.available
    /\ work_directory' = directory
    /\ ScanBegin
    /\ last' = Call("set_work_directory", directory, None)
    /\ UNCHANGED << config, batch_size, hash_thread, threads, events >>

\* scan_images, lines 227-252: enumeration, orphan recovery, loading strategy
\* and start_loading, which raises loading_finished at once on an empty list
\* (AppController.on_loading_finished then calls find_first_unlabeled)
ScanPopulate ==
    /\ pc = "scan"
    /\ \E order \in WalkOrders(JsonPaths(fs, work_directory)) :
         LET R == restore_missing_images(scan_image_files(fs, work_directory), fs,
                                         work_directory, order)
             size == adjust_loading_strategy(R.images, R.files)
         IN  /\ fs' = R.files
             /\ batch_size' = size
             /\ IF R.images = << >>
                THEN /\ images' = << >>
                     /\ pc' = "idle"
                     /\ UNCHANGED << hash_thread, threads >>
                ELSE /\ images' = load_batch(R.images, R.files, 0, Min(size, Len(R.images)))
                     /\ start_hash_calculation
    /\ current_index' = IF images' = << >> THEN first_unlabeled_index(images')
                        ELSE current_index
    /\ last' = Call("scan_images", None, None)
    /\ UNCHANGED << work_directory, config, labels_data, available_labels, events, scans >>

\* start_hash_calculation, lines 459-465: wait() returns once the old thread
\* has stopped running
ScanWait ==
    /\ pc = "wait"
    /\ ~IsRunning(threads[hash_thread])
    /\ StartThread
    /\ pc' = "idle"
    /\ last' = Call("scan_images", None, None)
    /\ UNCHANGED << fs, work_directory, config, images, current_index, labels_data,
                    available_labels, batch_size, events, scans >>

(***************************************************************************)
(* DataManager: the slots run by the foreground's event loop               *)
(***************************************************************************)

\* DataManager.on_hash_calculated
on_hash_calculated(ims, files, work_dir, labels, enable, index, hash_value) ==
    IF 0 <= index /\ index < Len(ims)
    THEN LET im0 == [ims[index + 1] EXCEPT !.hash = hash_value]
             r == check_and_update_annotation_file(im0, files, work_dir, enable)
             im1 == IF hash_value \in DOMAIN labels /\ ~Truthy(r.image.annotation)
                    THEN [r.image EXCEPT !.annotation = labels[hash_value]]
                    ELSE r.image
         IN  [images |-> [ims EXCEPT ![index + 1] = im1], files |-> r.files]
    ELSE [images |-> ims, files |-> files]

\* the queued hash_calculated signal is delivered
DeliverHashCalculated ==
    /\ pc = "idle"
    /\ events # << >>
    /\ Head(events).sig = "hash_calculated"
    /\ LET r == on_hash_calculated(images, fs, work_directory, labels_data, enable_base64,
                                   Head(events).index, Head(events).hash_value)
       IN  /\ images' = r.images
           /\ fs' = r.files
    /\ events' = Tail(events)
    /\ last' = Call("on_hash_calculated", Head(events).index, None)
    /\ UNCHANGED << work_directory, config, current_index, labels_data, available_labels,
                    batch_size, hash_thread, threads, pc, scans >>

\* the queued progress_updated signal is relayed as hash_calculation_progress
DeliverProgress ==
    /\ pc = "idle"
    /\ events # << >>
    /\ Head(events).sig = "progress_updated"
    /\ events' = Tail(events)
    /\ last' = Call("hash_calculation_progress", Head(events).current, None)
    /\ UNCHANGED << fs, work_directory, config, images, current_index, labels_data,
                    available_labels, batch_size, hash_thread, threads, pc, scans >>

\* the queued finished signal: on_hash_calculation_finished raises
\* loading_finished; AppController.on_loading_finished calls find_first_unlabeled
DeliverFinished ==
    /\ pc = "idle"
    /\ events # << >>
    /\ Head(events).sig = "finished"
    /\ events' = Tail(events)
    /\ current_index' = first_unlabeled_index(images)
    /\ last' = Call("on_hash_calculation_finished", Head(events).thread,
                    detected_mode(images, compatibility_mode))
    /\ UNCHANGED << fs, work_directory, config, images, labels_data, available_labels,
                    batch_size, hash_thread, threads, pc, scans >>

(***************************************************************************)
(* DataManager: the operations the UI layer calls                          *)
(***************************************************************************)

\* DataManager.ensure_image_loaded
ensure_image_loaded(ims, files, index) ==
    IF 0 <= index /\ index < Len(ims)
    THEN [ims EXCEPT ![index + 1] = load_image(ims[index + 1], files)]
    ELSE ims

\* mutant: the bound is off by one
move_to_next_ok_off_by_one == current_index < Len(images)

\* DataManager.move_to_next
move_to_next_ok == current_index < Len(images) - 1

MoveToNext ==
    /\ pc = "idle"
    /\ IF move_to_next_ok
       THEN /\ current_index' = current_index + 1
            /\ images' = ensure_image_loaded(images, fs, current_index + 1)
            /\ last' = Call("move_to_next", None, TRUE)
       ELSE /\ UNCHANGED << current_index, images >>
            /\ last' = Call("move_to_next", None, FALSE)
    /\ UNCHANGED << fs, work_directory, config, labels_data, available_labels, batch_size,
                    hash_thread, threads, events, pc, scans >>

\* DataManager.move_to_prev
move_to_prev_ok == current_index > 0

MoveToPrev ==
    /\ pc = "idle"
    /\ IF move_to_prev_ok
       THEN /\ current_index' = current_index - 1
            /\ images' = ensure_image_loaded(images, fs, current_index - 1)
            /\ last' = Call("move_to_prev", None, TRUE)
       ELSE /\ UNCHANGED << current_index, images >>
            /\ last' = Call("move_to_prev", None, FALSE)
    /\ UNCHANGED << fs, work_directory, config, labels_data, available_labels, batch_size,
                    hash_thread, threads, events, pc, scans >>

\* mutant: the upper bound is inclusive
jump_to_index_ok_inclusive(index) == 0 <= index /\ index <= Len(images)

\* DataManager.jump_to_index
jump_to_index_ok(index) == 0 <= index /\ index < Len(images)

JumpToIndex(index) ==
    /\ pc = "idle"
    /\ IF jump_to_index_ok(index)
       THEN /\ current_index' = index
            /\ images' = ensure_image_loaded(images, fs, index)
            /\ last' = Call("jump_to_index", index, TRUE)
       ELSE /\ UNCHANGED << current_index, images >>
            /\ last' = Call("jump_to_index", index, FALSE)
    /\ UNCHANGED << fs, work_directory, config, labels_data, available_labels, batch_size,
                    hash_thread, threads, events, pc, scans >>

\* DataManager.find_first_unlabeled
FindFirstUnlabeled ==
    /\ pc = "idle"
    /\ current_index' = first_unlabeled_index(images)
    /\ last' = Call("find_first_unlabeled", None, detected_mode(images, compatibility_mode))
    /\ UNCHANGED << fs, work_directory, config, images, labels_data, available_labels,
                    batch_size, hash_thread, threads, events, pc, scans >>

\* DataManager.get_current_image_info: the 1-based position of the current
\* entry, 0 for None
current_image == IF 0 <= current_index /\ current_index < Len(images)
                 THEN current_index + 1 ELSE 0

\* mutant: only a hash of None defers the save
save_annotation_ok_not_none == current_image # 0 /\ images[current_image].hash # None

\* save_annotation, line 620: there is a current entry and its hash is truthy
save_annotation_ok == current_image # 0 /\ Truthy(images[current_image].hash)

\* DataManager.save_annotation
SaveAnnotation(annotation) ==
    /\ pc = "idle"
    /\ IF save_annotation_ok
       THEN LET im == [images[current_image] EXCEPT !.annotation = annotation]
                r == save_single_annotation(im, fs, work_directory, custom_save_path,
                                            available_labels, enable_base64,
                                            compatibility_mode)
            IN  /\ images' = [images EXCEPT ![current_image] = r.image]
                /\ labels_data' = SetKey(labels_data, im.hash, annotation)
                /\ available_labels' = r.available
                /\ fs' = r.files
       ELSE UNCHANGED << images, labels_data, available_labels, fs >>
    /\ last' = Call("save_annotation", annotation, None)
    /\ UNCHANGED << work_directory, config, current_index, batch_size, hash_thread,
                    threads, events, pc, scans >>

\* DataManager.rename_all_images called on its own
RenameAllImages ==
    /\ pc = "idle"
    /\ LET r == rename_all_images(fs, work_directory)
       IN  /\ fs' = r.files
           /\ last' = [op |-> "rename_all_images", arg |-> None,
                       ret |-> r.renamed_count, overwritten |-> r.overwritten]
    /\ UNCHANGED << work_directory, config, images, current_index, labels_data,
                    available_labels, batch_size, hash_thread, threads, events, pc, scans >>

\* AppController.on_rename_images: rename_all_images, then scan_images when
\* anything was renamed
OnRenameImages ==
    /\ pc = "idle"
    /\ LET r == rename_all_images(fs, work_directory)
       IN  /\ fs' = r.files
           /\ last' = [op |-> "on_rename_images", arg |-> None,
                       ret |-> r.renamed_count, overwritten |-> r.overwritten]
           /\ UNCHANGED work_directory
           /\ IF r.renamed_count > 0
              THEN ScanBegin
              ELSE UNCHANGED << images, current_index, pc, scans >>
    /\ UNCHANGED << config, labels_data, available_labels, batch_size, hash_thread,
                    threads, events >>

\* DataManager.set_enable_base64
SetEnableBase64(enable) ==
    /\ pc = "idle"
    /\ enable_base64' = enable
    /\ last' = Call("set_enable_base64", enable, None)
    /\ UNCHANGED << fs, work_directory, custom_save_path, compatibility_mode, images,
                    current_index, labels_data, available_labels, batch_size, hash_thread,
                    threads, events, pc, scans >>

\* DataManager.set_custom_save_path
SetCustomSavePath(path) ==
    /\ pc = "idle"
    /\ custom_save_path' = path
    /\ last' = Call("set_custom_save_path", path, None)
    /\ UNCHANGED << fs, work_directory, enable_base64, compatibility_mode, images,
                    current_index, labels_data, available_labels, batch_size, hash_thread,
                    threads, events, pc, scans >>

(***************************************************************************)
(* Directories the specifications start from                               *)
(***************************************************************************)

TopDir == DirOf(WorkDir)

LowDir == DirOf(SubDir)

JpgExt == << ".", "j", "p", "g" >>

PngExt == << ".", "p", "n", "g" >>

Text(t) == << "text", t >>

Img0 == ImgPrefix \o Format06d(0)

Img1 == ImgPrefix \o Format06d(1)

\* a sidecar as save_single_annotation writes it for a plain-text annotation
\* of a file of the given bytes
Sidecar(filename, stored_bytes, describe) ==
    JsonFile([ filename |-> filename, hash |-> Sha256Hex(stored_bytes),
               file_size |-> FileSizeOf(stored_bytes),
               base64_data |-> B64Encode(stored_bytes),
               annotation |-> Text(describe), describe |-> Text(describe) ])

\* the directory holding the files of `pool` (path -> file) at `paths`
Directory(pool, paths) == [p \in paths |-> pool[p]]

\* the subsets of S with at most n elements
UpTo(S, n) == { T \in SUBSET S : Cardinality(T) <= n }

\* how many scans a run starts
MaxScans == 2

\* how many files the directories of the rename specification hold
MaxRenameFiles == 4

\* how many files the directories of the scan specification hold
MaxScanFiles == 2

(***************************************************************************)
(* Spec: the catalog with its worker, over two images whose names differ   *)
(* in case.                                                                *)
(***************************************************************************)

MainDirectories ==
    { (Join(TopDir, << "a" >> \o JpgExt) :> BinFile(1))
      @@ (Join(TopDir, << "B" >> \o PngExt) :> BinFile(2)) }

Init == \E files \in MainDirectories : InitWith(files)

Worker == \E t \in 1..Len(threads) : WorkerBegin(t) \/ WorkerIter(t) \/ WorkerFinish(t)

Deliver == DeliverHashCalculated \/ DeliverProgress \/ DeliverFinished

Next ==
    \/ (scans < MaxScans /\ SetWorkDirectory(WorkDir))
    \/ (scans < MaxScans /\ OnRenameImages)
    \/ ScanPopulate
    \/ ScanWait
    \/ Worker
    \/ Deliver
    \/ MoveToNext
    \/ MoveToPrev
    \/ (\E index \in -1..Len(images) : JumpToIndex(index))
    \/ FindFirstUnlabeled

Spec == Init /\ [][Next]_vars

\* the entry under the cursor has index current_index + 1 in the sequence
IndexInRange == 0 <= current_index /\ current_index < Len(images)

\* C1: whenever the catalog is non-empty, 0 <= currentIndex < len(catalog);
\* navigation, jumps, the first-unlabeled search and rescans all keep it.
C1_CurrentIndexInRange == (images # << >>) => IndexInRange

\* the cursor stands on the last entry and move_to_next has just refused
C1_Witness ==
    /\ last.op = "move_to_next"
    /\ last.ret = FALSE
    /\ images # << >>
    /\ current_index = Len(images) - 1
    /\ scans = MaxScans

RunningThreads == { t \in 1..Len(threads) : IsRunning(threads[t]) }

\* C10: at most one hash worker is running at any time; a scan that finds a
\* worker running stops it and waits for it before it starts the next one.
C10_AtMostOneWorker == Cardinality(RunningThreads) <= 1

\* a scan found the first worker running, stopped it before its last entry,
\* and the second worker runs
C10_Witness ==
    /\ Len(threads) = 2
    /\ threads[1].state = "finished"
    /\ threads[1].should_stop
    /\ threads[1].i < threads[1].total
    /\ IsRunning(threads[2])

(***************************************************************************)
(* SpecSave: annotations saved while the catalog is scanned and hashed,    *)
(* beside the image or under a custom save path.  The directory holds one  *)
(* readable image, or one that cannot be opened and whose hash is "".      *)
(***************************************************************************)

Unreadable(b) == [bytes |-> b, readable |-> FALSE]

SaveDirectories ==
    { Join(TopDir, << "a" >> \o JpgExt) :> BinFile(1),
      Join(TopDir, << "b" >> \o PngExt) :> Unreadable(2) }

\* what the annotation editor sends: a description, or a document with a
\* label list
SavedAnnotations ==
    { Text("cat"), << "json", [describe |-> Text("dog"), label |-> << "pet" >>] >> }

InitSave == \E files \in SaveDirectories : InitWith(files)

NextSave ==
    \/ (scans < MaxScans /\ SetWorkDirectory(WorkDir))
    \/ ScanPopulate
    \/ ScanWait
    \/ Worker
    \/ Deliver
    \/ (\E annotation \in SavedAnnotations : SaveAnnotation(annotation))
    \/ SetCustomSavePath(SubDir)

SpecSave == InitSave /\ [][NextSave]_vars

\* the hash of the entry under the cursor, None when there is no such entry
CurrentHash == IF IndexInRange THEN images[current_index + 1].hash ELSE None

SaveStep == last'.op = "save_annotation"

\* C2: saveAnnotation called while the current entry's hash is not yet
\* computed (None) or unavailable (""), or while there is no current entry,
\* is a no-op: the entries, the labels_data map and every file are unchanged.
C2_SaveWithoutHashIsNoOp ==
    [][ (SaveStep /\ CurrentHash \in {None, EmptyStr})
        => (images' = images /\ labels_data' = labels_data /\ fs' = fs
            /\ available_labels' = available_labels) ]_vars

\* save_annotation has just returned on an entry whose file cannot be read
C2_Witness ==
    /\ last.op = "save_annotation"
    /\ IndexInRange
    /\ CurrentHash = EmptyStr
    /\ images[current_index + 1].annotation = EmptyStr
    /\ labels_data = << >>

\* where save_annotation leaves the sidecar of an entry
SaveDir(im) ==
    IF custom_save_path \in ExistingDirs THEN DirOf(custom_save_path) ELSE DirName(im.path)

\* C3: after saveAnnotation(data) on a current entry whose hash h is
\* non-empty, labels_data[h] = data, the entry's annotation = data, and the
\* entry's sidecar <basename>.json exists as a JSON document whose filename
\* is the entry's filename and whose hash is h.
C3_SavePostcondition ==
    [][ (SaveStep /\ Truthy(CurrentHash))
        => /\ CurrentHash \in DOMAIN labels_data'
           /\ labels_data'[CurrentHash] = last'.arg
           /\ images'[current_index + 1].annotation = last'.arg
           /\ \E p \in DOMAIN fs' :
                /\ p.dir = SaveDir(images[current_index + 1])
                /\ p.name = SplitRoot(images[current_index + 1].filename) \o JsonExt
                /\ IsJson(fs'[p])
                /\ Get(fs'[p].doc, "filename", None) = images[current_index + 1].filename
                /\ Get(fs'[p].doc, "hash", None) = CurrentHash ]_vars

\* a document with labels has just been saved under the custom save path
\* for an entry that already had a sidecar beside its image
C3_Witness ==
    /\ last.op = "save_annotation"
    /\ Truthy(CurrentHash)
    /\ custom_save_path = SubDir
    /\ last.arg \notin { Text("cat") }
    /\ images[current_index + 1].annotation = last.arg
    /\ Join(LowDir, << "a" >> \o JsonExt) \in DOMAIN fs
    /\ Join(TopDir, << "a" >> \o JsonExt) \in DOMAIN fs

(***************************************************************************)
(* SpecRepair: an image replaced in place beside the sidecar written for   *)
(* its previous content, by a small file or by one above the base64        *)
(* ceiling, with base64 embedding switched on and off.                     *)
(***************************************************************************)

ReplacedImage(b) ==
    (Join(TopDir, << "a" >> \o JpgExt) :> BinFile(b))
    @@ (Join(TopDir, << "a" >> \o JsonExt) :> Sidecar(<< "a" >> \o JpgExt, 2, "red car"))

\* the replaced image beside a sidecar that carries a key LabelFlow never writes
AnnotatedElsewhere ==
    [ ReplacedImage(1) EXCEPT
        ![Join(TopDir, << "a" >> \o JsonExt)] = JsonFile(SetKey(@.doc, "note", Text("kept"))) ]

RepairDirectories == { ReplacedImage(1), ReplacedImage(3), AnnotatedElsewhere }

InitRepair == \E files \in RepairDirectories : InitWith(files)

NextRepair ==
    \/ (scans < MaxScans /\ SetWorkDirectory(WorkDir))
    \/ ScanPopulate
    \/ ScanWait
    \/ Worker
    \/ Deliver
    \/ (\E enable \in BOOLEAN : SetEnableBase64(enable))

SpecRepair == InitRepair /\ [][NextRepair]_vars

\* the base64_data a sidecar consistent with a file of these bytes carries
LiveBase64(b) ==
    IF enable_base64 /\ FileSizeOf(b) <= max_base64_file_size_mb * 1024 * 1024
    THEN B64Encode(b)
    ELSE None

\* the hash_calculated signal at the head of the queue carries the live hash
\* of an entry whose sidecar records another, non-empty hash
HashMismatchResolved ==
    /\ events # << >>
    /\ Head(events).sig = "hash_calculated"
    /\ Head(events).index < Len(images)
    /\ LET im == images[Head(events).index + 1] IN
       /\ CanRead(fs, im.path)
       /\ Head(events).hash_value = Sha256Hex(fs[im.path].bytes)
       /\ annotation_files(im, fs, work_directory) # {}
       /\ IsJson(fs[find_annotation_file(im, fs, work_directory)])
       /\ LET stored == Get(fs[find_annotation_file(im, fs, work_directory)].doc,
                            "hash", EmptyStr)
          IN  Truthy(stored) /\ stored # Head(events).hash_value

\* C4: when the hash of an entry is resolved and its sidecar records a
\* non-empty hash that differs from the live content hash, then after
\* reconciliation the sidecar's hash equals the live hash and its base64_data
\* is re-derived from the current file bytes (null if the file is not
\* size-eligible or embedding is off), never the encoding of the replaced file.
C4_RepairMakesSidecarConsistent ==
    [][ (HashMismatchResolved /\ last'.op = "on_hash_calculated" /\ events' = Tail(events))
        => LET im == images[Head(events).index + 1]
               json_path == find_annotation_file(im, fs, work_directory)
           IN  /\ json_path \in DOMAIN fs'
               /\ IsJson(fs'[json_path])
               /\ Get(fs'[json_path].doc, "hash", None) = Sha256Hex(fs[im.path].bytes)
               /\ Get(fs'[json_path].doc, "base64_data", None)
                    = LiveBase64(fs[im.path].bytes) ]_vars

(***************************************************************************)
(* SpecRename: rename_all_images run again and again on a working          *)
(* directory that was selected while empty and filled afterwards with      *)
(* images and sidecars, some of them already carrying IMG_ names.          *)
(***************************************************************************)

RenamePool ==
    (Join(TopDir, << "A" >> \o JpgExt) :> BinFile(1))
    @@ (Join(TopDir, << "A" >> \o JsonExt) :> Sidecar(<< "A" >> \o JpgExt, 1, "cat"))
    @@ (Join(TopDir, Img0 \o JpgExt) :> BinFile(2))
    @@ (Join(TopDir, Img0 \o PngExt) :> BinFile(3))
    @@ (Join(TopDir, Img0 \o JsonExt) :> Sidecar(Img0 \o PngExt, 3, "dog"))
    @@ (Join(TopDir, Img1 \o JpgExt) :> BinFile(4))
    @@ (Join(LowDir, << "b" >> \o JpgExt) :> BinFile(5))
    @@ (Join(LowDir, << "b" >> \o JsonExt) :> Sidecar(<< "b" >> \o JpgExt, 5, "owl"))

RenameDirectories ==
    { Directory(RenamePool, paths) : paths \in UpTo(DOMAIN RenamePool, MaxRenameFiles) }

\* the state set_work_directory leaves on an empty directory, with the files
\* put there afterwards
InitRename ==
    \E files \in RenameDirectories :
        /\ fs = files
        /\ work_directory = WorkDir
        /\ custom_save_path = EmptyStr
        /\ enable_base64 = TRUE
        /\ compatibility_mode = FALSE
        /\ images = << >>
        /\ current_index = 0
        /\ labels_data = << >>
        /\ available_labels = << >>
        /\ batch_size = 0
        /\ hash_thread = 0
        /\ threads = << >>
        /\ events = << >>
        /\ pc = "idle"
        /\ scans = 1
        /\ last = Call("on_loading_finished", None, None)

NextRename == RenameAllImages

SpecRename == InitRename /\ [][NextRename]_vars

\* C5: for every initial set of image and sidecar names, renameAll run twice
\* in a row, nothing else changing in between, renames no file and returns 0
\* on the second run.
C5_SecondRenameRenamesNothing ==
    [][ (last.op = "rename_all_images" /\ last'.op = "rename_all_images")
        => (last'.ret = 0 /\ fs' = fs) ]_vars

\* C6: renameAll never overwrites an existing destination: no rename or
\* write it performs, of an image or of a sidecar, targets a path at which a
\* file already exists.
C6_RenameNeverOverwrites ==
    (last.op = "rename_all_images") => (last.overwritten = {})

(***************************************************************************)
(* SpecScan: scans with orphan recovery.  The directory holds up to        *)
(* MaxScanFiles of: images whose names differ in case, the sidecar of a    *)
(* missing a.jpg, a second sidecar recording a.jpg with other bytes, a     *)
(* sidecar in a subdirectory, and a sidecar whose base64_data is corrupt.  *)
(* The signals of the workers stay queued: the scans follow one another    *)
(* without the foreground returning to its event loop.                     *)
(***************************************************************************)

ScanPool ==
    (Join(TopDir, << "a" >> \o JpgExt) :> BinFile(1))
    @@ (Join(TopDir, << "B" >> \o PngExt) :> BinFile(2))
    @@ (Join(TopDir, << "A" >> \o PngExt) :> BinFile(2))
    @@ (Join(TopDir, << "a" >> \o JsonExt) :> Sidecar(<< "a" >> \o JpgExt, 1, "cat"))
    @@ (Join(TopDir, << "x" >> \o JsonExt) :> Sidecar(<< "a" >> \o JpgExt, 2, "dog"))
    @@ (Join(LowDir, << "c" >> \o JsonExt) :> Sidecar(<< "c" >> \o JpgExt, 2, "owl"))
    @@ (Join(TopDir, << "d" >> \o JsonExt) :>
            JsonFile([ filename |-> << "d" >> \o JpgExt, hash |-> Sha256Hex(1),
                       base64_data |-> << "corrupt" >> ]))

ScanDirectories ==
    { Directory(ScanPool, paths) : paths \in UpTo(DOMAIN ScanPool, MaxScanFiles) }

InitScan == \E files \in ScanDirectories : InitWith(files)

NextScan ==
    \/ (scans < MaxScans /\ SetWorkDirectory(WorkDir))
    \/ ScanPopulate
    \/ ScanWait
    \/ Worker

SpecScan == InitScan /\ [][NextScan]_vars

\* the step of scan_images that enumerates, recovers and starts loading
ScanStep == pc = "scan" /\ last'.op = "scan_images"

AfterScan == pc # "scan" /\ last.op = "scan_images"

\* C7: orphan recovery during a scan never overwrites or modifies an existing
\* file: a file at a recovery target path is left byte-identical and the
\* recovery for that sidecar is skipped, adding no second entry for the path.
C7_RecoveryNeverOverwrites ==
    [][ ScanStep
        => /\ \A p \in DOMAIN fs : p \in DOMAIN fs' /\ fs'[p] = fs[p]
           /\ \A i, j \in 1..Len(images') :
                (images'[i].path = images'[j].path) => (i = j) ]_vars

\* a scan has passed an orphan sidecar whose recovery target exists with
\* other bytes than the sidecar embeds
C7_Witness ==
    /\ AfterScan
    /\ \E p \in DOMAIN fs :
         /\ IsJsonName(p.name)
         /\ IsJson(fs[p])
         /\ "filename" \in DOMAIN fs[p].doc
         /\ B64Decodable(Get(fs[p].doc, "base64_data", None))
         /\ \A i \in 1..Len(images) :
              Lower(SplitRoot(images[i].filename)) # Lower(SplitRoot(p.name))
         /\ Join(p.dir, fs[p].doc.filename) \in DOMAIN fs
         /\ fs[Join(p.dir, fs[p].doc.filename)] # BinFile(B64Decode(fs[p].doc.base64_data))

\* sidecar p records the image file of its own basename and embeds its bytes
RecordsOwnImage(p) ==
    /\ p \in Walk(fs, work_directory)
    /\ IsJsonName(p.name)
    /\ p.name \notin {LabelsJson, LabelsCacheJson}
    /\ IsJson(fs[p])
    /\ "filename" \in DOMAIN fs[p].doc
    /\ IsImageName(fs[p].doc.filename)
    /\ SplitRoot(fs[p].doc.filename) = SplitRoot(p.name)
    /\ B64Decodable(Get(fs[p].doc, "base64_data", None))

NoImageNamed(root) ==
    \A q \in Walk(fs, work_directory) : IsImageName(q.name) => SplitRoot(q.name) # root

NoImageNamedIgnoringCase(root) ==
    \A q \in Walk(fs, work_directory) :
        IsImageName(q.name) => Lower(SplitRoot(q.name)) # Lower(root)

\* no other sidecar of p's directory records the file name p records
NoRival(p) ==
    \A q \in Walk(fs, work_directory) \ {p} :
        (q.dir = p.dir /\ IsJson(fs[q]) /\ "filename" \in DOMAIN fs[q].doc)
            => fs[q].doc.filename # fs[p].doc.filename

\* after the step the file p records exists with the bytes p embeds, and the
\* catalog holds its entry between the entries sorting before and after it
Recovered(p) ==
    LET target == Join(p.dir, fs[p].doc.filename) IN
    /\ target \in DOMAIN fs'
    /\ fs'[target] = BinFile(B64Decode(fs[p].doc.base64_data))
    /\ \E i \in 1..Len(images') :
         /\ images'[i].path = target
         /\ \A j \in 1..Len(images') :
              /\ (j < i) => StrLeq(Lower(images'[j].filename), Lower(images'[i].filename))
              /\ (j > i) => StrLeq(Lower(images'[i].filename), Lower(images'[j].filename))

\* C8 as stated: scanning a directory that holds sidecar a.json (recorded
\* filename a.jpg, non-empty base64_data encoding bytes B) but no image with
\* basename a results in a.jpg existing with content exactly B and in the
\* catalog containing an entry for a.jpg at its sorted position.
C8_OrphanRecovered ==
    [][ ScanStep
        => \A p \in DOMAIN fs :
             (RecordsOwnImage(p) /\ NoImageNamed(SplitRoot(p.name))) => Recovered(p) ]_vars

\* C8 amended: the same, for a directory that holds no image whose basename
\* equals a ignoring letter case and, beside a.json, no other sidecar
\* recording the filename a.jpg.
C8_OrphanRecoveredUnrivalled ==
    [][ ScanStep
        => \A p \in DOMAIN fs :
             (RecordsOwnImage(p) /\ NoImageNamedIgnoringCase(SplitRoot(p.name)) /\ NoRival(p))
                => Recovered(p) ]_vars

\* a scan has recovered a.jpg from a.json and placed its entry before that
\* of B.png, which the enumeration had found
C8_Witness ==
    /\ AfterScan
    /\ scans = 1
    /\ Join(TopDir, << "a" >> \o JsonExt) \in DOMAIN fs
    /\ Join(TopDir, << "x" >> \o JsonExt) \notin DOMAIN fs
    /\ Len(images) = 2
    /\ images[1].path = Join(TopDir, << "a" >> \o JpgExt)
    /\ images[2].path = Join(TopDir, << "B" >> \o PngExt)
    /\ fs[images[1].path] = BinFile(1)

\* C9: after every scan the entry sequence is sorted ascending by filename
\* compared case-insensitively (and so two scans over the same file set
\* yield the same order).
C9_ScanSortedIgnoringCase ==
    AfterScan
        => \A i, j \in 1..Len(images) :
             (i < j) => StrLeq(Lower(images[i].filename), Lower(images[j].filename))

(***************************************************************************)
(* The hash worker (checked under Spec)                                    *)
(***************************************************************************)

\* C11: no exception ever terminates the hash worker: in every execution,
\* including a rescan that clears and repopulates the shared entry list
\* while the worker is running, the worker's loop ends only by exhausting the
\* entries or by observing the stop flag.
C11_WorkerNeverRaises ==
    \A t \in 1..Len(threads) : threads[t].state # "raised"

\* the signals a step appends to the queue of emitted signals
NewEvents ==
    IF Len(events') >= Len(events)
    THEN SubSeq(events', Len(events) + 1, Len(events'))
    ELSE << >>

ProgressOf(t, evs) ==
    SelectSeq(evs, LAMBDA e : e.sig = "progress_updated" /\ e.thread = t)

\* C12: a worker run processes the entries in strictly increasing catalog
\* index starting at 0 (its position is 0 when created and when it begins, and
\* moves only from i to i + 1), and emits exactly one progress event
\* (i + 1, total, filename of entry i) per processed entry, in the step that
\* processes entry i, hence before the events of entry i + 1.
C12_ProgressInIndexOrder ==
    [][ /\ \A t \in (Len(threads) + 1)..Len(threads') : threads'[t].i = 0
        /\ \A t \in 1..Len(threads) :
              LET i == threads[t].i
              IN  /\ threads[t].state = "started" => i = 0 /\ threads'[t].i = 0
                  /\ threads'[t].i \in {i, i + 1}
                  /\ IF threads'[t].i = i + 1
                     THEN /\ threads[t].state = "running"
                          /\ i < threads[t].total
                          /\ ProgressOf(t, NewEvents) =
                                << [sig |-> "progress_updated", thread |-> t,
                                    current |-> i + 1, total |-> threads[t].total,
                                    filename |-> images'[i + 1].filename] >>
                     ELSE ProgressOf(t, NewEvents) = << >> ]_vars

\* a worker has processed both entries and its two progress events, of the
\* first and then of the second entry, are in the queue
C12_Witness ==
    \E t \in 1..Len(threads) :
        /\ threads[t].i = 2
        /\ Len(ProgressOf(t, events)) = 2
        /\ ProgressOf(t, events)[1].current = 1
        /\ ProgressOf(t, events)[2].current = 2
        /\ ProgressOf(t, events)[1].filename = images[1].filename
        /\ ProgressOf(t, events)[2].filename = images[2].filename

FinishedOf(t, evs) ==
    SelectSeq(evs, LAMBDA e : e.sig = "finished" /\ e.thread = t)

\* C13: a worker that runs to normal completion (its stop flag never set)
\* emits its finished event exactly once: in the step in which it leaves the
\* loop, with every entry processed (so after the progress event of the last
\* entry and never before it), and never again afterwards.
C13_FinishedOnceAfterLastProgress ==
    [][ \A t \in 1..Len(threads) :
            /\ threads[t].state = "finished" => threads'[t].state = "finished"
            /\ IF threads[t].state = "running" /\ threads'[t].state = "finished"
               THEN /\ NewEvents = << [sig |-> "finished", thread |-> t] >>
                    /\ ~threads[t].should_stop => threads[t].i = threads[t].total
               ELSE FinishedOf(t, NewEvents) = << >> ]_vars

\* a worker that was never cancelled has finished a two-entry run, and its
\* finished event is the newest signal in the queue, behind its last progress
\* event
C13_Witness ==
    \E t \in 1..Len(threads) :
        /\ threads[t].state = "finished"
        /\ ~threads[t].should_stop
        /\ threads[t].total = 2
        /\ Len(events) >= 2
        /\ events[Len(events)] = [sig |-> "finished", thread |-> t]
        /\ events[Len(events) - 1].sig = "progress_updated"
        /\ events[Len(events) - 1].thread = t
        /\ events[Len(events) - 1].current = 2
        /\ Len(FinishedOf(t, events)) = 1

\* DataManager.set_available_labels (called by AppController.on_labels_changed):
\* the list is stored as given and the cache is saved
SetAvailableLabels(labels) ==
    /\ pc = "idle"
    /\ available_labels' = labels
    /\ fs' = save_labels_cache(fs, work_directory, labels)
    /\ last' = Call("set_available_labels", labels, None)
    /\ UNCHANGED << work_directory, config, images, current_index, labels_data,
                    batch_size, hash_thread, threads, events, pc, scans >>

\* DataManager.set_compatibility_mode
SetCompatibilityMode(enabled) ==
    /\ pc = "idle"
    /\ compatibility_mode' = enabled
    /\ last' = Call("set_compatibility_mode", enabled, None)
    /\ UNCHANGED << fs, work_directory, custom_save_path, enable_base64, images,
                    current_index, labels_data, available_labels, batch_size, hash_thread,
                    threads, events, pc, scans >>

(***************************************************************************)
(* Navigation (checked under Spec)                                         *)
(***************************************************************************)

NavigationRefused ==
    /\ last'.ret = FALSE
    /\ current_index' = current_index
    /\ images' = images

\* C15: move_to_next at the last entry, move_to_prev at index 0 and
\* jump_to_index(i) with i outside [0, len) return False and leave
\* current_index and every entry (its loaded flag and resident pixel data
\* included) unchanged; on an empty catalog all three return False.
C15_RefusedNavigationChangesNothing ==
    [][ /\ last'.op = "move_to_next" /\ current_index = Len(images) - 1
            => NavigationRefused
        /\ last'.op = "move_to_prev" /\ current_index = 0
            => NavigationRefused
        /\ last'.op = "jump_to_index" /\ (last'.arg < 0 \/ last'.arg >= Len(images))
            => NavigationRefused
        /\ last'.op \in {"move_to_next", "move_to_prev", "jump_to_index"}
           /\ Len(images) = 0
            => NavigationRefused ]_vars

\* move_to_next has just been refused at the last of two entries
C15_Witness ==
    /\ last.op = "move_to_next"
    /\ last.ret = FALSE
    /\ Len(images) = 2
    /\ current_index = 1

(***************************************************************************)
(* Scans and workers under fair scheduling: the worker is a thread of its  *)
(* own, which the operating system keeps scheduling while it can take a    *)
(* step, and the foreground blocked in wait() (start_hash_calculation,     *)
(* line 458) resumes once the worker has left run().                       *)
(***************************************************************************)

NextFair ==
    \/ (scans < MaxScans /\ SetWorkDirectory(WorkDir))
    \/ ScanPopulate
    \/ ScanWait
    \/ Worker
    \/ Deliver

SpecFair == Init /\ [][NextFair]_vars /\ WF_vars(Worker) /\ WF_vars(ScanWait)

StopRequested(t) ==
    t <= Len(threads) /\ threads[t].should_stop /\ IsRunning(threads[t])

Halted(t) == t <= Len(threads) /\ ~IsRunning(threads[t])

\* C14: once stop() has been requested on a worker, the worker begins no
\* further entry (its position no longer moves and it emits no progress
\* event); under fair scheduling a worker whose stop was requested eventually
\* leaves run(), and the foreground waiting for it eventually resumes.
C14_StopHaltsWorker ==
    /\ [][ \A t \in 1..Len(threads) :
               threads[t].should_stop =>
                   /\ threads'[t].i = threads[t].i
                   /\ ProgressOf(t, NewEvents) = << >>
                   /\ threads'[t].should_stop ]_vars
    /\ \A t \in 1..MaxScans : StopRequested(t) ~> Halted(t)
    /\ (pc = "wait") ~> (pc # "wait")

\* a worker stopped in the middle of a two-entry run has halted with one
\* entry processed, and the foreground that waited for it has gone on
C14_Witness ==
    \E t \in 1..Len(threads) :
        /\ threads[t].should_stop
        /\ threads[t].state = "finished"
        /\ threads[t].total = 2
        /\ threads[t].i = 1
        /\ pc = "idle"
        /\ hash_thread > t

(***************************************************************************)
(* SpecFind: a working directory of up to MaxFindEntries images, scanned   *)
(* and hashed; the user jumps between the entries, saves annotations as    *)
(* the annotation panel emits them (a JSON object with describe and label) *)
(* and has the first unlabeled entry looked up.                            *)
(***************************************************************************)

MaxFindEntries == 5

FindDirectory(n) ==
    [p \in { Join(TopDir, << Digit(k) >> \o JpgExt) : k \in 0..(n - 1) } |-> BinFile(1)]

\* what the annotation panel emits: a description, a label, nothing but a blank
PanelAnnotations ==
    { JsonDumps([describe |-> Text("cat"), label |-> << >>]),
      JsonDumps([describe |-> EmptyStr, label |-> << "pet" >>]),
      JsonDumps([describe |-> Text(" "), label |-> << >>]) }

\* the state in which on_loading_finished leaves a directory without
\* sidecars once its worker has hashed every entry
InitFind ==
    \E n \in 0..MaxFindEntries :
        LET scanned == scan_image_files(FindDirectory(n), WorkDir)
        IN  /\ fs = FindDirectory(n)
            /\ work_directory = WorkDir
            /\ custom_save_path = EmptyStr
            /\ enable_base64 = TRUE
            /\ compatibility_mode = FALSE
            /\ images = [i \in 1..n |->
                            calculate_base64(
                                calculate_hash(load_image(scanned[i], fs), fs),
                                fs, TRUE, max_base64_file_size_mb)]
            /\ current_index = 0
            /\ labels_data = << >>
            /\ available_labels = << >>
            /\ batch_size = adjust_loading_strategy(scanned, FindDirectory(n))
            /\ hash_thread = IF n = 0 THEN 0 ELSE 1
            /\ threads = IF n = 0 THEN << >>
                         ELSE << [HashCalculationThread(TRUE, max_base64_file_size_mb)
                                    EXCEPT !.state = "finished", !.i = n, !.total = n] >>
            /\ events = << >>
            /\ pc = "idle"
            /\ scans = 1
            /\ last = Call("on_loading_finished", None, None)

NextFind ==
    \/ (\E index \in 0..(Len(images) - 1) : JumpToIndex(index))
    \/ (\E annotation \in PanelAnnotations : SaveAnnotation(annotation))
    \/ FindFirstUnlabeled

SpecFind == InitFind /\ [][NextFind]_vars

\* the annotation classifies as empty: it has no non-blank describe and no
\* non-empty label sequence
ClassifiesEmpty(annotation) ==
    \/ annotation = EmptyStr
    \/ /\ JsonParses(annotation)
       /\ Strip(Get(annotation[2], "describe", EmptyStr)) = EmptyStr
       /\ Get(annotation[2], "label", << >>) = << >>

EmptyEntries == { i \in 0..(Len(images) - 1) : ClassifiesEmpty(images[i + 1].annotation) }

MaxLabelFiles == 3

LabelledSidecar(filename, stored_bytes, label) ==
    JsonFile([ filename |-> filename, hash |-> Sha256Hex(stored_bytes),
               file_size |-> FileSizeOf(stored_bytes),
               base64_data |-> B64Encode(stored_bytes), label |-> label ])

LabelPool ==
    (Join(TopDir, << "a" >> \o JpgExt) :> BinFile(1))
    @@ (Join(TopDir, << "b" >> \o JpgExt) :> BinFile(2))
    @@ (Join(TopDir, << "a" >> \o JsonExt) :>
            LabelledSidecar(<< "a" >> \o JpgExt, 1, << "cat" >>))
    @@ (Join(TopDir, << "b" >> \o JsonExt) :>
            LabelledSidecar(<< "b" >> \o JpgExt, 2, << "cat", "dog" >>))
    @@ (Join(TopDir, LabelsCacheJson) :>
            JsonFile([available_labels |-> << "owl", "owl" >>]))

LabelDirectories ==
    { Directory(LabelPool, paths) : paths \in UpTo(DOMAIN LabelPool, MaxLabelFiles) }

\* the lists handed to set_available_labels
LabelLists == { << "cat" >>, << "dog", "cat" >>, << "dog", "dog" >> }

LabelAnnotations == { JsonDumps([describe |-> EmptyStr, label |-> << "cat", "dog" >>]) }

InitLabels == \E files \in LabelDirectories : InitWith(files)

NextLabels ==
    \/ (scans < MaxScans /\ SetWorkDirectory(WorkDir))
    \/ ScanPopulate
    \/ ScanWait
    \/ Worker
    \/ Deliver
    \/ (\E annotation \in LabelAnnotations : SaveAnnotation(annotation))
    \/ (\E labels \in LabelLists : SetAvailableLabels(labels))

SpecLabels == InitLabels /\ [][NextLabels]_vars

\* C17: after any sequence of loads, save_annotation, set_available_labels
\* and rescans, the available-label sequence contains no string twice.
C17_AvailableLabelsUnique ==
    \A i, j \in 1..Len(available_labels) :
        available_labels[i] = available_labels[j] => i = j

(***************************************************************************)
(* SpecCodec: one image.  Annotation objects with every combination of     *)
(* describe and label are saved (encoded into the sidecar by               *)
(* save_single_annotation) and the directory is loaded again (decoded by   *)
(* load_individual_annotations), compatibility mode on or off.             *)
(***************************************************************************)

CodecImage == Join(TopDir, << "a" >> \o JpgExt)

CodecDirectory == (CodecImage :> BinFile(1))

\* describe absent, empty or a text; label absent, empty or one label
CodecAnnotations ==
    LET describes == { << >>, [describe |-> EmptyStr], [describe |-> Text("dog")] }
        labels == { << >>, [label |-> << >>], [label |-> << "pet" >>] }
    IN  { JsonDumps(d @@ l) : d \in describes, l \in labels }

InitCodec == InitWith(CodecDirectory)

NextCodec ==
    \/ (scans < MaxScans /\ SetWorkDirectory(WorkDir))
    \/ ScanPopulate
    \/ ScanWait
    \/ Worker
    \/ Deliver
    \/ (\E enabled \in BOOLEAN : SetCompatibilityMode(enabled))
    \/ (\E annotation \in CodecAnnotations : SaveAnnotation(annotation))

SpecCodec == InitCodec /\ [][NextCodec]_vars

\* save_annotation has just written its argument to the sidecar of the entry
Encoded ==
    /\ last.op = "save_annotation"
    /\ save_annotation_ok
    /\ images[current_image].annotation = last.arg

\* C18: for every annotation object with any combination of describe and
\* label (present or absent, describe possibly empty, label possibly an empty
\* sequence), writing it to the sidecar and loading that sidecar back yields
\* an annotation equal to the original.
C18_RoundTrip ==
    [][ Encoded /\ last'.op = "set_work_directory" =>
            LET hash == images[current_image].hash
            IN  /\ hash \in DOMAIN labels_data'
                /\ labels_data'[hash] = last.arg ]_vars

(***************************************************************************)
(* SpecLegacy: one image with a sidecar of the V0.0.2 format, which        *)
(* carries only the annotation field, holding plain text; the directory is *)
(* loaded with compatibility mode on or off.                               *)
(***************************************************************************)

LegacyText == Text("cat")

LegacyDirectory ==
    (CodecImage :> BinFile(1))
    @@ (Join(TopDir, << "a" >> \o JsonExt) :>
            JsonFile([ filename |-> << "a" >> \o JpgExt, hash |-> Sha256Hex(1),
                       annotation |-> LegacyText ]))

InitLegacy == InitWith(LegacyDirectory)

NextLegacy ==
    \/ (scans < MaxScans /\ SetWorkDirectory(WorkDir))
    \/ ScanPopulate
    \/ ScanWait
    \/ Worker
    \/ Deliver
    \/ (\E enabled \in BOOLEAN : SetCompatibilityMode(enabled))
    \/ FindFirstUnlabeled

SpecLegacy == InitLegacy /\ [][NextLegacy]_vars

LegacyHash == Sha256Hex(1)

\* the annotation decoded from the sidecar has describe equal to the legacy
\* text, no label, and classifies as mode "description"
DecodedAsDescription(decoded, compat) ==
    /\ JsonParses(decoded)
    /\ Get(decoded[2], "describe", EmptyStr) = LegacyText
    /\ Get(decoded[2], "label", << >>) = << >>
    /\ detect_annotation_mode(decoded, compat) = << "description" >>

\* C19 as stated: decoding a sidecar that carries only a legacy annotation
\* field holding plain text yields an annotation whose describe equals that
\* text and whose label sequence is empty, and that annotation classifies as
\* mode "description".
C19_LegacyDecoded ==
    [][ last'.op = "set_work_directory" =>
            /\ LegacyHash \in DOMAIN labels_data'
            /\ DecodedAsDescription(labels_data'[LegacyHash], compatibility_mode) ]_vars

\* C19 amended: with compatibility mode enabled, decoding the sidecar yields
\* an annotation whose describe equals the legacy text, whose label sequence
\* is empty and which classifies as mode "description"; with compatibility
\* mode disabled the legacy field is not read and the sidecar yields no
\* annotation.
C19_LegacyDecodedInCompatibilityMode ==
    [][ last'.op = "set_work_directory" =>
            IF compatibility_mode
            THEN /\ LegacyHash \in DOMAIN labels_data'
                 /\ DecodedAsDescription(labels_data'[LegacyHash], compatibility_mode)
            ELSE LegacyHash \notin DOMAIN labels_data' ]_vars

\* the legacy sidecar has been loaded in compatibility mode, its annotation
\* has reached the entry, and find_first_unlabeled has classified it
C19_Witness ==
    /\ compatibility_mode
    /\ last.op = "find_first_unlabeled"
    /\ last.ret = << "description" >>
    /\ Len(images) = 1
    /\ LegacyHash \in DOMAIN labels_data
    /\ images[1].annotation = labels_data[LegacyHash]
    /\ DecodedAsDescription(images[1].annotation, compatibility_mode)

(***************************************************************************)
(* SpecBatch: adjust_loading_strategy applied to catalogs as scan_images   *)
(* has just enumerated them (line 246): BatchCounts entries IMG_000000.jpg *)
(* onwards, the first five with sizes drawn from SampleKiB, every later    *)
(* one of the same size, drawn from RestKiB.  The content number of a file *)
(* is its size in KiB.                                                     *)
(***************************************************************************)

MaxBatchFiles == 500

BatchCounts == {3, 99, 100, MaxBatchFiles}

\* 86 KiB, 20 MiB, 60 MiB
SampleKiB == {86, 20 * 1024, 60 * 1024}

\* 20 MiB, and the size that with five files of 86 KiB makes 500 files
\* average 20 MiB
RestKiB == {20 * 1024, 20686}

BatchImage(k) == Join(TopDir, ImgPrefix \o Format06d(k) \o JpgExt)

BatchDirectory(n, sample, rest) ==
    [p \in { BatchImage(k) : k \in 0..(Min(5, n) - 1) } |->
        BinFile(sample[(CHOOSE k \in 0..4 : BatchImage(k) = p) + 1])]
    @@ [p \in { BatchImage(k) : k \in 5..(n - 1) } |-> BinFile(rest)]

InitBatch ==
    \E n \in BatchCounts, sample \in [1..5 -> SampleKiB], rest \in RestKiB :
        /\ fs = BatchDirectory(n, sample, rest)
        /\ work_directory = WorkDir
        /\ custom_save_path = EmptyStr
        /\ enable_base64 = TRUE
        /\ compatibility_mode = FALSE
        /\ images = [i \in 1..n |-> ImageInfo(BatchImage(i - 1))]
        /\ current_index = 0
        /\ labels_data = << >>
        /\ available_labels = << >>
        /\ batch_size = DEFAULT_BATCH_SIZE
        /\ hash_thread = 0
        /\ threads = << >>
        /\ events = << >>
        /\ pc = "scan"
        /\ scans = 1
        /\ last = Call("restore_missing_images", None, 0)

\* scan_images, line 246: self.adjust_loading_strategy()
AdjustLoadingStrategy ==
    /\ pc = "scan"
    /\ batch_size' = adjust_loading_strategy(images, fs)
    /\ last' = Call("adjust_loading_strategy", None, None)
    /\ UNCHANGED << fs, work_directory, config, images, current_index, labels_data,
                    available_labels, hash_thread, threads, events, pc, scans >>

NextBatch == AdjustLoadingStrategy

SpecBatch == InitBatch /\ [][NextBatch]_vars

Adjusted == last.op = "adjust_loading_strategy"

SizeKiB(i) == get_file_size(images[i], fs) \div 1024

RECURSIVE SumKiB(_, _)
SumKiB(lo, hi) ==
    IF lo > hi THEN 0
    ELSE IF lo = hi THEN SizeKiB(lo)
    ELSE SumKiB(lo, (lo + hi) \div 2) + SumKiB((lo + hi) \div 2 + 1, hi)

\* the first n entries are whole KiB in size and average 20 MiB
Average20MiB(n) ==
    /\ \A i \in 1..n : get_file_size(images[i], fs) % 1024 = 0
    /\ SumKiB(1, n) = n * 20 * 1024

\* ceil(1024 / 20)
CeilingFor20MiB == (MAX_MEMORY_MB + 19) \div 20

\* C20 as stated: the batch size computed on scan is within [20, 100] when
\* the catalog has at least 100 entries and equals the entry count when it
\* has fewer; for 500 files averaging 20 MiB it is at least 20 and at most
\* ceil(1024 / 20).
C20_BatchSize ==
    Adjusted =>
        /\ Len(images) >= 100 =>
              MIN_BATCH_SIZE <= batch_size /\ batch_size <= DEFAULT_BATCH_SIZE
        /\ Len(images) < 100 => batch_size = Len(images)
        /\ Len(images) = 500 /\ Average20MiB(500) =>
              MIN_BATCH_SIZE <= batch_size /\ batch_size <= CeilingFor20MiB

\* C20 amended: as above, the last part for 500 files of which the first
\* five, the sample the estimate is taken from, average 20 MiB.
C20_BatchSizeFromSample ==
    Adjusted =>
        /\ Len(images) >= 100 =>
              MIN_BATCH_SIZE <= batch_size /\ batch_size <= DEFAULT_BATCH_SIZE
        /\ Len(images) < 100 => batch_size = Len(images)
        /\ Len(images) = 500 /\ Average20MiB(5) =>
              MIN_BATCH_SIZE <= batch_size /\ batch_size <= CeilingFor20MiB

\* 500 files of 20 MiB each: the batch size is 51
C20_Witness ==
    /\ Adjusted
    /\ Len(images) = 500
    /\ Average20MiB(500)
    /\ Average20MiB(5)
    /\ batch_size = 51

(***************************************************************************)
(* SpecIsolate: passes over a directory holding faulty sidecars beside     *)
(* well-formed ones.  The directory holds any of: the labelled sidecar of  *)
(* a missing a.jpg, a sidecar that is not JSON, a sidecar whose            *)
(* base64_data does not decode, and a sidecar whose filename names a       *)
(* directory that is not on disk.  The passes are the foreground's: the   *)
(* workers the scans start are left waiting.  The working directory is    *)
(* set to the directory or to one that does not exist.                     *)
(***************************************************************************)

MalformedFile == BinFile(1)

IsolatePool ==
    (Join(TopDir, << "a" >> \o JsonExt) :>
            LabelledSidecar(<< "a" >> \o JpgExt, 1, << "cat" >>))
    @@ (Join(TopDir, << "m" >> \o JsonExt) :> MalformedFile)
    @@ (Join(TopDir, << "d" >> \o JsonExt) :>
            JsonFile([ filename |-> << "d" >> \o JpgExt, hash |-> Sha256Hex(1),
                       base64_data |-> << "corrupt" >> ]))
    @@ (Join(TopDir, << "e" >> \o JsonExt) :>
            JsonFile([ filename |-> << "n", "/", "e" >> \o JpgExt,
                       hash |-> Sha256Hex(2), base64_data |-> B64Encode(2) ]))

IsolateDirectories ==
    { Directory(IsolatePool, paths) : paths \in SUBSET DOMAIN IsolatePool }

InitIsolate == \E files \in IsolateDirectories : InitWith(files)

\* a directory that is not on disk
MissingDir == << "M" >>

NextIsolate ==
    \/ (scans < MaxScans /\ SetWorkDirectory(WorkDir))
    \/ (scans < MaxScans /\ SetWorkDirectory(MissingDir))
    \/ ScanPopulate

SpecIsolate == InitIsolate /\ [][NextIsolate]_vars

\* the sidecars of a directory (the passes leave labels.json and the label
\* cache to their own readers)
SidecarPaths(files, directory) ==
    { p \in JsonPaths(files, directory) : p.name \notin {LabelsJson, LabelsCacheJson} }

\* the sidecars json.load rejects
MalformedSidecars(files, directory) ==
    { p \in SidecarPaths(files, directory) : ~IsJson(files[p]) }

\* the sidecars orphan recovery fails on: malformed JSON, a payload that
\* does not decode, or an image file that cannot be written
UnrecoverableSidecars(files, directory) ==
    MalformedSidecars(files, directory)
    \cup { p \in SidecarPaths(files, directory) :
              /\ IsJson(files[p])
              /\ "base64_data" \in DOMAIN files[p].doc
              /\ Truthy(files[p].doc.base64_data)
              /\ "filename" \in DOMAIN files[p].doc
              /\ \/ ~B64Decodable(files[p].doc.base64_data)
                 \/ ~CanCreate(Join(p.dir, files[p].doc.filename)) }

Without(files, paths) == [p \in DOMAIN files \ paths |-> files[p]]

PathsOf(ims) == [i \in 1..Len(ims) |-> ims[i].path]

\* sidecar loading and label extraction end as they do on the directory
\* without the malformed sidecars
LoadIsolated ==
    LET bad == MalformedSidecars(fs, work_directory')
        clean == Without(fs, bad)
    IN  \E order \in WalkOrders(JsonPaths(clean, work_directory')) :
          LET L == load_labels(images, clean, work_directory', available_labels,
                               compatibility_mode, order)
          IN  \E label_order \in Perms(extracted_labels(L.files, work_directory',
                                                         compatibility_mode)) :
                LET C == load_labels_cache(L.files, work_directory', L.available,
                                           compatibility_mode, label_order)
                IN  /\ labels_data' = L.labels_data
                    /\ available_labels' = C.available
                    /\ Without(fs', bad) = C.files
                    /\ \A p \in bad : p \in DOMAIN fs' /\ fs'[p] = fs[p]

\* orphan recovery ends as it does on the directory without the sidecars
\* it fails on
RecoveryIsolated ==
    LET bad == UnrecoverableSidecars(fs, work_directory)
        clean == Without(fs, bad)
    IN  \E order \in WalkOrders(JsonPaths(clean, work_directory)) :
          LET R == restore_missing_images(scan_image_files(clean, work_directory),
                                          clean, work_directory, order)
          IN  /\ PathsOf(images') = PathsOf(R.images)
              /\ Without(fs', bad) = R.files
              /\ \A p \in bad : p \in DOMAIN fs' /\ fs'[p] = fs[p]

\* C21: a malformed JSON sidecar, an undecodable base64 payload or a write
\* error is confined to its file: sidecar loading, label extraction and
\* orphan recovery end with the annotations, labels, catalog and files they
\* produce on the same directory without the faulty sidecars.
C21_FaultsAreIsolated ==
    [][ /\ (pc = "idle" /\ last'.op = "set_work_directory") => LoadIsolated
        /\ ScanStep => RecoveryIsolated ]_vars

\* a scan of a directory holding all three faulty sidecars has recovered
\* a.jpg and loaded its annotation
C21_Witness ==
    /\ AfterScan
    /\ { Join(TopDir, << "m" >> \o JsonExt), Join(TopDir, << "d" >> \o JsonExt),
         Join(TopDir, << "e" >> \o JsonExt) } \subseteq DOMAIN fs
    /\ fs[Join(TopDir, << "m" >> \o JsonExt)] = MalformedFile
    /\ Join(TopDir, << "a" >> \o JpgExt) \in DOMAIN fs
    /\ Join(TopDir, << "n", "/", "e" >> \o JpgExt) \notin DOMAIN fs
    /\ Sha256Hex(1) \in DOMAIN labels_data
    /\ available_labels = << "cat" >>
    /\ Len(images) = 1

\* C22: a scan of a working directory that does not exist ends at once: the
\* catalog is left empty with current_index 0, no file is recovered or
\* written, no worker is started, and the catalog stays empty while that
\* directory is the working directory.
C22_MissingDirectoryShortCircuits ==
    [][ /\ (pc = "idle" /\ last'.op = "set_work_directory"
                        /\ work_directory' \notin ExistingDirs)
           => /\ pc' = "idle"
              /\ images' = << >>
              /\ current_index' = 0
              /\ fs' = fs
              /\ threads' = threads
              /\ hash_thread' = hash_thread
              /\ events' = events
        /\ (work_directory \notin ExistingDirs /\ work_directory' = work_directory)
           => (images = << >> /\ images' = << >> /\ fs' = fs /\ threads' = threads) ]_vars

\* the working directory was set to the missing directory after a scan that
\* recovered an image and started a worker
C22_Witness ==
    /\ last.op = "set_work_directory"
    /\ work_directory = MissingDir
    /\ pc = "idle"
    /\ Len(threads) = 1
    /\ Join(TopDir, << "a" >> \o JpgExt) \in DOMAIN fs
    /\ images = << >>

(***************************************************************************)
(* SpecMode: one image whose sidecar carries a blank describe beside a     *)
(* legacy annotation field; the directory is loaded with compatibility     *)
(* mode on or off, and save_annotation is also called with plain text.     *)
(***************************************************************************)

ModeDirectory ==
    (CodecImage :> BinFile(1))
    @@ (Join(TopDir, << "a" >> \o JsonExt) :>
            JsonFile([ filename |-> << "a" >> \o JpgExt, hash |-> Sha256Hex(1),
                       describe |-> Text(" "), annotation |-> Text("cat") ]))

InitMode == InitWith(ModeDirectory)

NextMode ==
    \/ (scans < MaxScans /\ SetWorkDirectory(WorkDir))
    \/ ScanPopulate
    \/ ScanWait
    \/ Worker
    \/ Deliver
    \/ (\E enabled \in BOOLEAN : SetCompatibilityMode(enabled))
    \/ SaveAnnotation(Text("dog"))
    \/ FindFirstUnlabeled

SpecMode == InitMode /\ [][NextMode]_vars

\* the describe of a decoded annotation after the legacy fallback: the
\* describe field, else the legacy annotation field; a string that is not a
\* JSON object is itself the description
DescribeAfterFallback(annotation) ==
    IF ~Truthy(annotation) THEN EmptyStr
    ELSE IF StartsWithBrace(Strip(annotation)) /\ JsonParses(annotation)
    THEN IF Truthy(Strip(Get(annotation[2], "describe", EmptyStr)))
         THEN annotation[2].describe
         ELSE Get(annotation[2], "annotation", EmptyStr)
    ELSE annotation

LabelOfDecoded(annotation) ==
    IF Truthy(annotation) /\ StartsWithBrace(Strip(annotation)) /\ JsonParses(annotation)
    THEN Get(annotation[2], "label", << >>)
    ELSE << >>

\* the classification the rule gives
ClassifiedByRule(annotation) ==
    LET has_describe == Truthy(Strip(DescribeAfterFallback(annotation)))
        has_label == LabelOfDecoded(annotation) # << >>
    IN  IF has_describe /\ has_label THEN << "mixed" >>
        ELSE IF has_label THEN << "label" >>
        ELSE IF has_describe THEN << "description" >>
        ELSE None

\* C23: mode detection classifies the annotation of every entry by the one
\* rule (empty iff no non-blank describe and no non-empty label after the
\* legacy fallback, mixed iff both, else the one present), and
\* find_first_unlabeled takes an entry for unannotated exactly when that
\* classification is empty.
C23_OneClassificationRule ==
    \A i \in 1..Len(images) :
        /\ detect_annotation_mode(images[i].annotation, compatibility_mode)
             = ClassifiedByRule(images[i].annotation)
        /\ ~has_annotation(images[i].annotation)
             <=> (detect_annotation_mode(images[i].annotation, compatibility_mode) = None)

(***************************************************************************)
(* rename_all_images and the sidecars (SpecRename)                         *)
(***************************************************************************)

\* the sidecars rename_all_images enumerates
RenameSidecars(files, work_dir) ==
    { p \in Walk(files, work_dir) :
        /\ ~IsImageName(p.name)
        /\ IsJsonName(p.name)
        /\ p.name \notin {LabelsJson, LabelsCacheJson, KeysSettingJson} }

\* after the image m.old was renamed to m.new, the sidecar at json_path has
\* become <new basename>.json, records the new file name, and is gone from
\* its old path
SidecarFollows(json_path, m) ==
    LET new_json_path == Join(DirName(json_path), SplitRoot(BaseName(m.new)) \o JsonExt)
    IN  /\ new_json_path \in DOMAIN fs'
        /\ IsJson(fs'[new_json_path])
        /\ Get(fs'[new_json_path].doc, "filename", None) = BaseName(m.new)
        /\ json_path \notin DOMAIN fs'

\* C24: for each sidecar whose basename is the old basename of an image
\* rename_all_images renamed, the call leaves a sidecar <new basename>.json
\* whose filename field is the image's new file name, and the old sidecar
\* file is gone.
C24_SidecarFollowsRenamedImage ==
    [][ last'.op = "rename_all_images" =>
          \A m \in rename_all_images(fs, work_directory).moved :
            \A json_path \in RenameSidecars(fs, work_directory) :
              SplitRoot(BaseName(json_path)) = SplitRoot(BaseName(m.old))
                => SidecarFollows(json_path, m) ]_vars

(***************************************************************************)
(* SpecStale: the working directory is switched between a directory and    *)
(* its subdirectory while workers run, so that signals of an earlier       *)
(* worker are delivered after scan_images has rebuilt the list.            *)
(***************************************************************************)

StaleDirectory ==
    (Join(TopDir, << "a" >> \o JpgExt) :> BinFile(1))
    @@ (Join(LowDir, << "c" >> \o JpgExt) :> BinFile(2))

InitStale == InitWith(StaleDirectory)

NextStale ==
    \/ (scans < MaxScans /\ SetWorkDirectory(WorkDir))
    \/ (scans < MaxScans /\ SetWorkDirectory(SubDir))
    \/ ScanPopulate
    \/ ScanWait
    \/ Worker
    \/ Deliver

SpecStale == InitStale /\ [][NextStale]_vars

\* C25: whenever the hash of an entry is neither None nor "", it is the
\* hash of that entry's own file, in every interleaving, deliveries of the
\* hash_calculated signals of an earlier or cancelled worker after a rescan
\* included.
C25_HashIsOfOwnFile ==
    \A i \in 1..Len(images) :
        images[i].hash \notin {None, EmptyStr}
            => /\ images[i].path \in DOMAIN fs
               /\ images[i].hash = Sha256Hex(fs[images[i].path].bytes)

(***************************************************************************)
(* The worker's writes as the foreground sees them (Spec)                  *)
(***************************************************************************)

\* a foreground operation on the catalog is being run
ForegroundOperation ==
    last'.op \in { "move_to_next", "move_to_prev", "jump_to_index",
                   "find_first_unlabeled", "save_annotation" }

\* the hash_calculated signal the current worker emitted for entry i (0-based)
\* is still queued: on_hash_calculated has not run for that entry
ReconciliationPending(i) ==
    \E k \in 1..Len(events) :
        /\ events[k].sig = "hash_calculated"
        /\ events[k].thread = hash_thread
        /\ events[k].index = i

\* C26: a foreground operation (navigation, save_annotation,
\* find_first_unlabeled) never finds an entry whose hash is set while the
\* reconciliation of that entry (on_hash_calculated: sidecar hash repair and
\* association of the annotation by hash) has not been applied.
C26_WorkerItemAtomic ==
    [][ ForegroundOperation =>
          \A i \in 1..Len(images) :
              (images[i].hash # None) => ~ReconciliationPending(i - 1) ]_vars

(***************************************************************************)
(* Who writes which field of an entry (SpecSave)                           *)
(***************************************************************************)

\* the step is one of the worker thread
WorkerStep == last'.op = "run"

\* the step is a slot or a call run by the foreground on the entries of
\* the list as it is (scan_images replaces the entries by new ones)
ForegroundStep ==
    last'.op \in { "on_hash_calculated", "hash_calculation_progress",
                   "on_hash_calculation_finished", "save_annotation",
                   "set_custom_save_path" }

\* C27: only the worker assigns an entry's hash or base64 data and only the
\* foreground assigns its annotation or pixel data: no foreground step, the
\* on_hash_calculated slot and save_annotation included, changes hash or
\* base64_data, and no worker step changes annotation or image_data.
C27_SingleWriter ==
    [][ /\ ForegroundStep =>
              /\ Len(images') = Len(images)
              /\ \A i \in 1..Len(images) :
                    /\ images'[i].hash = images[i].hash
                    /\ images'[i].base64_data = images[i].base64_data
        /\ WorkerStep =>
              /\ Len(images') = Len(images)
              /\ \A i \in 1..Len(images) :
                    /\ images'[i].annotation = images[i].annotation
                    /\ images'[i].image_data = images[i].image_data ]_vars

(***************************************************************************)
(* rename_all_images and the annotations (SpecRename)                      *)
(***************************************************************************)

\* the sidecar save_single_annotation keeps beside an image
SidecarBeside(image_path) ==
    Join(DirName(image_path), SplitRoot(BaseName(image_path)) \o JsonExt)

\* the image has a sidecar of its own: the sidecar beside it records it
HasOwnSidecar(files, image_path) ==
    /\ SidecarBeside(image_path) \in DOMAIN files
    /\ IsJson(files[SidecarBeside(image_path)])
    /\ Get(files[SidecarBeside(image_path)].doc, "filename", None) = BaseName(image_path)

\* where the image is after the renames `moved`
PathAfter(moved, image_path) ==
    IF \E m \in moved : m.old = image_path
    THEN (CHOOSE m \in moved : m.old = image_path).new
    ELSE image_path

\* C28: rename_all_images loses no annotation: every image that had a
\* sidecar of its own before the call has afterwards a sidecar under its
\* (possibly new) basename holding the same describe and label, so that no
\* sidecar of another image was overwritten or moved away from its image.
C28_RenameKeepsAnnotations ==
    [][ last'.op = "rename_all_images" =>
          LET moved == rename_all_images(fs, work_directory).moved IN
          \A image_path \in { p \in Walk(fs, work_directory) : IsImageName(p.name) } :
            HasOwnSidecar(fs, image_path) =>
              LET before == fs[SidecarBeside(image_path)].doc
                  json_path == SidecarBeside(PathAfter(moved, image_path))
              IN  /\ json_path \in DOMAIN fs'
                  /\ IsJson(fs'[json_path])
                  /\ Get(fs'[json_path].doc, "describe", None) = Get(before, "describe", None)
                  /\ Get(fs'[json_path].doc, "label", None) = Get(before, "label", None) ]_vars

(***************************************************************************)
(* SpecShare: annotations saved for images that share a basename: a.jpg    *)
(* and a.png in one directory, or b.jpg in the directory and b.jpg in its  *)
(* subdirectory with the subdirectory as custom save path.  The slots of  *)
(* the workers' signals are left out: save_annotation reads the hash the   *)
(* worker has written to the entry.                                        *)
(***************************************************************************)

ShareDirectories ==
    { (Join(TopDir, << "a" >> \o JpgExt) :> BinFile(1))
        @@ (Join(TopDir, << "a" >> \o PngExt) :> BinFile(2)),
      (Join(TopDir, << "b" >> \o JpgExt) :> BinFile(1))
        @@ (Join(LowDir, << "b" >> \o JpgExt) :> BinFile(2)) }

InitShare == \E files \in ShareDirectories : InitWith(files)

NextShare ==
    \/ (scans < MaxScans /\ SetWorkDirectory(WorkDir))
    \/ ScanPopulate
    \/ ScanWait
    \/ Worker
    \/ MoveToNext
    \/ SetCustomSavePath(SubDir)
    \/ (\E annotation \in { Text("cat"), Text("dog") } : SaveAnnotation(annotation))

SpecShare == InitShare /\ [][NextShare]_vars

\* the file at json_path is the sidecar holding the annotation of entry i
HoldsAnnotationOf(json_path, i) ==
    /\ IsJson(fs[json_path])
    /\ Get(fs[json_path].doc, "filename", None) = images[i].filename
    /\ Get(fs[json_path].doc, "hash", None) = images[i].hash
    /\ Truthy(images[i].annotation)
    /\ Get(fs[json_path].doc, "describe", None) = images[i].annotation

\* C29: save_annotation for the current entry creates or overwrites only
\* that entry's own sidecar: a sidecar holding the annotation of any other
\* entry is unchanged, also when two images share a basename.
C29_SaveTouchesOwnSidecarOnly ==
    [][ last'.op = "save_annotation" =>
          \A i \in 1..Len(images) : \A json_path \in DOMAIN fs :
              (i # current_image /\ HoldsAnnotationOf(json_path, i))
                  => (json_path \in DOMAIN fs' /\ fs'[json_path] = fs[json_path]) ]_vars

(***************************************************************************)
(* loading_finished and the hashes of the current list (Spec)              *)
(***************************************************************************)

\* on_hash_calculation_finished is being run: loading_finished is raised
LoadingFinishedRaised == last'.op = "on_hash_calculation_finished"

\* C30: whenever loading_finished is raised for a non-empty catalog, every
\* entry of the current catalog has a resolved hash (not None), also when
\* the finished signal comes from a worker that was cancelled or replaced
\* by a rescan.
C30_FinishedMeansAllHashed ==
    [][ (LoadingFinishedRaised /\ images # << >>)
          => \A i \in 1..Len(images) : images[i].hash # None ]_vars

(***************************************************************************)
(* SpecFinish: the working directory is set to a directory with images,    *)
(* to one without images, or to one that does not exist.  The foreground   *)
(* finishes the handler it is in, the workers run and the event loop       *)
(* delivers the queued signals: each is weakly fair.                       *)
(***************************************************************************)

FinishDirectories ==
    { (Join(TopDir, << "a" >> \o JpgExt) :> BinFile(1))
        @@ (Join(TopDir, << "B" >> \o PngExt) :> BinFile(2)),
      (Join(TopDir, << "a" >> \o JsonExt) :> LabelledSidecar(<< "a" >> \o JpgExt, 1, << >>)) }

InitFinish == \E files \in FinishDirectories : InitWith(files)

NextFinish ==
    \/ (scans < MaxScans /\ SetWorkDirectory(WorkDir))
    \/ (scans < MaxScans /\ SetWorkDirectory(MissingDir))
    \/ ScanPopulate
    \/ ScanWait
    \/ Worker
    \/ Deliver

SpecFinish ==
    /\ InitFinish
    /\ [][NextFinish]_vars
    /\ WF_vars(ScanPopulate)
    /\ WF_vars(ScanWait)
    /\ WF_vars(Worker)
    /\ WF_vars(Deliver)

\* loading_finished has just been raised: by start_loading on an empty
\* list, or by on_hash_calculation_finished
LoadingFinished ==
    \/ last.op = "on_hash_calculation_finished"
    \/ (last.op = "scan_images" /\ pc = "idle" /\ images = << >>)

\* C31: after every set_work_directory, loading_finished is eventually
\* raised, for a directory with images, for one without images and for a
\* working directory that does not exist.
C31_LoadingEventuallyFinishes ==
    (last.op = "set_work_directory") ~> LoadingFinished

(***************************************************************************)
(* Hash repair as a rewrite of the sidecar: what a repair leaves alone     *)
(***************************************************************************)

\* the delivery of a hash_calculated signal has written to the directory
RepairStep == last'.op = "on_hash_calculated" /\ fs' # fs

\* the document `new` differs from `old` in the keys of `rewritten` at most
FieldsKept(old, new, rewritten) ==
    /\ DOMAIN new \subseteq DOMAIN old \cup rewritten
    /\ \A k \in DOMAIN old \ rewritten : k \in DOMAIN new /\ new[k] = old[k]

\* a repair changes sidecars only, and in each only the keys of `rewritten`
RepairKeeps(rewritten) ==
    RepairStep =>
        /\ DOMAIN fs' = DOMAIN fs
        /\ \A p \in DOMAIN fs :
              fs'[p] # fs[p] =>
                /\ IsJson(fs[p]) /\ IsJson(fs'[p])
                /\ FieldsKept(fs[p].doc, fs'[p].doc, rewritten)

\* C32 (as the code has it): a hash repair rewrites the sidecar keeping every
\* field other than hash, base64_data and file_size (filename, describe,
\* label, the legacy annotation, unknown keys) at exactly its previous value;
\* file_size is set to the size of the file now on disk.
C32_RepairKeepsOtherFields ==
    [][ RepairKeeps({ "hash", "base64_data", "file_size" }) ]_vars

\* C32 as stated: after a repair every field of the sidecar other than hash and
\* base64_data, file_size included, has exactly its previous value.
C32_RepairKeepsAllButHashAndBase64 ==
    [][ RepairKeeps({ "hash", "base64_data" }) ]_vars

\* a repair has run on the sidecar with the unknown key: its hash is the live
\* one and the description and the unknown key are still there
C32_Witness ==
    /\ last.op = "on_hash_calculated"
    /\ LET json_path == Join(TopDir, << "a" >> \o JsonExt) IN
        /\ json_path \in DOMAIN fs
        /\ IsJson(fs[json_path])
        /\ Get(fs[json_path].doc, "hash", None) = Sha256Hex(1)
        /\ Get(fs[json_path].doc, "note", None) = Text("kept")
        /\ Get(fs[json_path].doc, "describe", None) = Text("red car")
        /\ Get(fs[json_path].doc, "file_size", 0) = FileSizeOf(1)

(***************************************************************************)
(* SpecTree: a working directory holding two images of the same basename,  *)
(* one at the top and one in a subdirectory, each beside a sidecar that    *)
(* records its file's hash.                                                *)
(***************************************************************************)

TreeDirectory ==
    (Join(TopDir, << "b" >> \o JpgExt) :> BinFile(1))
    @@ (Join(TopDir, << "b" >> \o JsonExt) :> Sidecar(<< "b" >> \o JpgExt, 1, "red car"))
    @@ (Join(LowDir, << "b" >> \o JpgExt) :> BinFile(2))
    @@ (Join(LowDir, << "b" >> \o JsonExt) :> Sidecar(<< "b" >> \o JpgExt, 2, "blue car"))

InitTree == InitWith(TreeDirectory)

NextTree ==
    \/ (scans < MaxScans /\ SetWorkDirectory(WorkDir))
    \/ ScanPopulate
    \/ ScanWait
    \/ Worker
    \/ Deliver

SpecTree == InitTree /\ [][NextTree]_vars

\* C33: a hash repair triggered for an entry rewrites at most the sidecar next
\* to that entry's file; the sidecar of a different image of the same basename
\* elsewhere in the directory tree keeps its stored hash and base64.
C33_RepairTouchesOwnSidecarOnly ==
    [][ (RepairStep /\ events # << >> /\ Head(events).index < Len(images))
        => \A p \in DOMAIN fs :
             fs'[p] # fs[p] => p = SidecarBeside(images[Head(events).index + 1].path) ]_vars

(***************************************************************************)
(* SpecHash: the catalog over one image, readable or not, with the worker, *)
(* navigation and saves, while the file is replaced in place behind the    *)
(* program's back.                                                         *)
(***************************************************************************)

HashDirectories ==
    { Join(TopDir, << "a" >> \o JpgExt) :> BinFile(1),
      Join(TopDir, << "a" >> \o JpgExt) :> Unreadable(2) }

InitHash == \E files \in HashDirectories : InitWith(files)

\* another program replaces an image in place by a readable file of other
\* content: what open(self.path, 'rb') would read from then on
ReplaceInPlace ==
    /\ \E p \in { Join(TopDir, << "a" >> \o JpgExt) } :
         /\ fs[p] # BinFile(3)
         /\ fs' = [fs EXCEPT ![p] = BinFile(3)]
         /\ last' = Call("open", p, None)
    /\ UNCHANGED << work_directory, config, images, current_index, labels_data,
                    available_labels, batch_size, hash_thread, threads, events, pc, scans >>

NextHash ==
    \/ (scans < MaxScans /\ SetWorkDirectory(WorkDir))
    \/ ScanPopulate
    \/ ScanWait
    \/ Worker
    \/ Deliver
    \/ SaveAnnotation(Text("cat"))
    \/ JumpToIndex(0)
    \/ ReplaceInPlace

SpecHash == InitHash /\ [][NextHash]_vars

\* calculate_hash on an entry whose hash is set returns it as it is, whatever
\* the file holds by now
HashMemoized ==
    \A i \in 1..Len(images) :
        images[i].hash # None => calculate_hash(images[i], fs) = images[i]

\* the step is the delivery of a hash_calculated signal, which assigns the
\* value the signal carries
HashAssigned == last'.op = "on_hash_calculated"

\* C34: an entry's content hash is computed at most once per entry object:
\* once it is not None (the "" of a failed read included) calculate_hash does
\* not read the file again, and no read, navigation, save or worker pass
\* changes it, also after the file has been replaced on disk.
C34_HashComputedOnce ==
    [][ /\ HashMemoized
        /\ ~HashAssigned =>
             \A i \in 1..Len(images) :
                (i <= Len(images') /\ images[i].hash # None)
                    => images'[i].hash = images[i].hash ]_vars

\* the entry carries the "" of a failed first read, the file has been
\* replaced by a readable one since, and the entry was saved after that
C34_Witness ==
    /\ last.op = "save_annotation"
    /\ Len(images) = 1
    /\ images[1].hash = EmptyStr
    /\ fs[images[1].path] = BinFile(3)

(***************************************************************************)
(* SpecCache: the available labels and their cache.  The working directory *)
(* holds one image beside a labelled sidecar or beside a JSON document     *)
(* that carries labels but no hash, with or without a label cache; its    *)
(* subdirectory is empty.  The working directory is set to either of the   *)
(* two, labels are set by hand and introduced by saves.                    *)
(***************************************************************************)

\* a JSON document with a label list and no hash, as another tool writes it
HashlessSidecar(label) == JsonFile([label |-> label])

CacheDirectories ==
    { (Join(TopDir, << "a" >> \o JpgExt) :> BinFile(1))
        @@ (Join(TopDir, << "a" >> \o JsonExt) :>
                LabelledSidecar(<< "a" >> \o JpgExt, 1, << "cat" >>)),
      (Join(TopDir, << "a" >> \o JpgExt) :> BinFile(1))
        @@ (Join(TopDir, << "n" >> \o JsonExt) :> HashlessSidecar(<< "elk", "fox" >>)),
      (Join(TopDir, << "a" >> \o JpgExt) :> BinFile(1))
        @@ (Join(TopDir, << "a" >> \o JsonExt) :>
                LabelledSidecar(<< "a" >> \o JpgExt, 1, << "cat" >>))
        @@ (Join(TopDir, LabelsCacheJson) :> JsonFile([available_labels |-> << "owl" >>])) }

InitCache == \E files \in CacheDirectories : InitWith(files)

NextCache ==
    \/ (scans < MaxScans /\ SetWorkDirectory(WorkDir))
    \/ (scans < MaxScans /\ SetWorkDirectory(SubDir))
    \/ ScanPopulate
    \/ ScanWait
    \/ Worker
    \/ Deliver
    \/ (\E annotation \in LabelAnnotations : SaveAnnotation(annotation))
    \/ SetAvailableLabels(<< "dog", "cat" >>)

SpecCache == InitCache /\ [][NextCache]_vars

\* labels_cache.json of the working directory holds the in-memory sequence
CacheHoldsLabels ==
    /\ labels_cache_file(work_directory) \in DOMAIN fs
    /\ IsJson(fs[labels_cache_file(work_directory)])
    /\ Get(fs[labels_cache_file(work_directory)].doc, "available_labels", None)
         = available_labels

\* the step has changed the available labels or is a set_available_labels
LabelsMutated ==
    available_labels' # available_labels \/ last'.op = "set_available_labels"

\* C35: after every operation that mutates the available labels
\* (set_available_labels, a save that introduces a label, the extraction of
\* labels while a directory is loaded), labels_cache.json of the working
\* directory, a directory that exists, holds exactly the in-memory sequence.
C35_CacheFollowsLabels ==
    [][ (LabelsMutated /\ work_directory' \in ExistingDirs) => CacheHoldsLabels' ]_vars

\* a save has introduced the label dog after cat was loaded, and the cache
\* holds both
C35_Witness ==
    /\ last.op = "save_annotation"
    /\ work_directory = WorkDir
    /\ available_labels = << "cat", "dog" >>
    /\ CacheHoldsLabels

\* the labels of a sequence and the first position of one of them
LabelSet(labels) == { labels[i] : i \in 1..Len(labels) }

PositionOf(labels, x) ==
    CHOOSE i \in 1..Len(labels) :
        labels[i] = x /\ \A j \in 1..Len(labels) : labels[j] = x => i <= j

\* x comes before y in the sequence, which holds both
Before(labels, x, y) ==
    /\ x \in LabelSet(labels) /\ y \in LabelSet(labels)
    /\ PositionOf(labels, x) < PositionOf(labels, y)

\* the labels that both sequences hold come in the same relative order
KeepsOrder(old, new) ==
    \A x, y \in LabelSet(old) \cap LabelSet(new) :
        Before(old, x, y) => Before(new, x, y)

\* the JSON documents below the directory that carry a label list
LabelledDocuments(files, directory) ==
    { p \in Walk(files, directory) :
        /\ IsJsonName(p.name)
        /\ p.name \notin { LabelsJson, LabelsCacheJson }
        /\ IsJson(files[p])
        /\ "label" \in DOMAIN files[p].doc }

\* the labels a load has newly taken from one document stand in the order in
\* which that document lists them (no other document of the model's
\* directories carries the same labels)
NewLabelsInFirstSeenOrder ==
    \A p \in LabelledDocuments(fs, work_directory') :
        LET label == fs[p].doc.label IN
        \A i, j \in 1..Len(label) :
            (i < j /\ { label[i], label[j] } \cap LabelSet(available_labels) = {})
                => Before(available_labels', label[i], label[j])

\* C36: the available labels are in first-seen insertion order, and the order
\* is stable: labels already in the sequence keep their relative order
\* across load, extraction and save, and the labels newly extracted from a
\* sidecar are appended in the order in which they are first met, the same
\* in every run on the same directory content.
C36_LabelOrderIsFirstSeen ==
    [][ /\ last'.op \in { "set_work_directory", "save_annotation" }
            => KeepsOrder(available_labels, available_labels')
        /\ last'.op = "set_work_directory" => NewLabelsInFirstSeenOrder ]_vars

\* the labels D's label cache lists
CachedLabels(files, directory) ==
    IF /\ labels_cache_file(directory) \in DOMAIN files
       /\ IsJson(files[labels_cache_file(directory)])
    THEN LabelSet(Get(files[labels_cache_file(directory)].doc, "available_labels", << >>))
    ELSE {}

\* the hashes the sidecars below D record
RecordedHashes(files, directory) ==
    { files[p].doc.hash :
        p \in { q \in Walk(files, directory) :
                  IsJsonName(q.name) /\ IsJson(files[q]) /\ "hash" \in DOMAIN files[q].doc } }

\* C37: after set_work_directory(D) every available label comes from D's
\* labels_cache.json or from a sidecar under D, and every hash-keyed
\* annotation from a sidecar under D: nothing of a directory opened before
\* carries over into D, whether or not D has a cache file.
C37_LabelsComeFromDirectory ==
    [][ last'.op = "set_work_directory"
        => /\ LabelSet(available_labels')
                \subseteq CachedLabels(fs, work_directory')
                          \cup extracted_labels(fs, work_directory', compatibility_mode)
           /\ DOMAIN labels_data' \subseteq RecordedHashes(fs, work_directory') ]_vars

(***************************************************************************)
(* SpecEmbed: one image, within the size ceiling of the embedding or above *)
(* it, scanned, hashed and saved while the embedding is switched off and   *)
(* on.                                                                     *)
(***************************************************************************)

EmbedImage == Join(TopDir, << "a" >> \o JpgExt)

EmbedDirectories == { EmbedImage :> BinFile(1), EmbedImage :> BinFile(3) }

InitEmbed == \E files \in EmbedDirectories : InitWith(files)

NextEmbed ==
    \/ (scans < MaxScans /\ SetWorkDirectory(WorkDir))
    \/ ScanPopulate
    \/ ScanWait
    \/ Worker
    \/ Deliver
    \/ (\E enable \in BOOLEAN : SetEnableBase64(enable))
    \/ SaveAnnotation(Text("cat"))

SpecEmbed == InitEmbed /\ [][NextEmbed]_vars

\* the file of the entry can be read and is within the size ceiling
Embeddable(im) ==
    /\ CanRead(fs, im.path)
    /\ FileSizeOf(fs[im.path].bytes) <= max_base64_file_size_mb * 1024 * 1024

\* a save is about to write the sidecar of the current entry
SaveWrites == last'.op = "save_annotation" /\ save_annotation_ok

\* C38: whenever the embedding is enabled at the time of a save and the
\* entry's file is within the size ceiling, the written sidecar's base64_data
\* is the encoding of the file, also when the entry was hashed or saved
\* while the embedding was disabled.
C38_EnabledSaveEmbeds ==
    [][ (SaveWrites /\ enable_base64 /\ Embeddable(images[current_image]))
        => LET im == images[current_image]
               json_path == sidecar_path(im, custom_save_path)
           IN  /\ json_path \in DOMAIN fs'
               /\ IsJson(fs'[json_path])
               /\ Get(fs'[json_path].doc, "base64_data", None)
                    = B64Encode(fs[im.path].bytes) ]_vars

\* the entry was hashed by a worker that ran with the embedding disabled, and
\* a save with the embedding enabled again has written the encoding
C38_Witness ==
    /\ last.op = "save_annotation"
    /\ enable_base64
    /\ Len(images) = 1
    /\ \A t \in 1..Len(threads) : ~threads[t].enable_base64
    /\ SidecarBeside(EmbedImage) \in DOMAIN fs
    /\ IsJson(fs[SidecarBeside(EmbedImage)])
    /\ Get(fs[SidecarBeside(EmbedImage)].doc, "base64_data", None) = B64Encode(1)

(***************************************************************************)
(* The memory estimate of the batch size (checked under SpecBatch)         *)
(***************************************************************************)

\* batch_size * avg_size <= MAX_MEMORY_MB MiB for the average of the five
\* sampled files, in KiB and multiplied by the sample size
WithinMemoryCeiling(size) == size * SumKiB(1, 5) <= 5 * MAX_MEMORY_MB * 1024

\* C39 (as the code has it): for every sampled average file size the batch
\* size derived on scan satisfies batch_size * avg_size <= the memory ceiling
\* of 1 GiB as long as the minimum batch size of 20 fits under the ceiling
\* (an average of at most 51.2 MiB); for larger averages the batch size is
\* the minimum and the product exceeds the ceiling.
C39_BatchWithinCeilingUnlessMinimal ==
    (Adjusted /\ Len(images) >= 100) =>
        IF WithinMemoryCeiling(MIN_BATCH_SIZE)
        THEN WithinMemoryCeiling(batch_size)
        ELSE batch_size = MIN_BATCH_SIZE

\* C39 as stated: for every sampled average file size, the averages at which
\* the minimum batch size applies included, batch_size * avg_size <= the
\* memory ceiling.
C39_BatchWithinCeiling ==
    (Adjusted /\ Len(images) >= 100) => WithinMemoryCeiling(batch_size)

\* 500 files whose sample averages 60 MiB: the minimum batch size applies
C39_Witness ==
    /\ Adjusted
    /\ Len(images) = 500
    /\ SumKiB(1, 5) = 5 * 60 * 1024
    /\ batch_size = MIN_BATCH_SIZE
    /\ ~WithinMemoryCeiling(batch_size)

(***************************************************************************)
(* Hash repair run again (checked under SpecRepair)                        *)
(***************************************************************************)

\* the hash_calculated signal at the head of the queue carries the hash that
\* the sidecar of its entry records already
RepairOfConsistent ==
    /\ events # << >>
    /\ Head(events).sig = "hash_calculated"
    /\ Head(events).index < Len(images)
    /\ Truthy(Head(events).hash_value)
    /\ LET im == images[Head(events).index + 1] IN
        /\ annotation_files(im, fs, work_directory) # {}
        /\ IsJson(fs[find_annotation_file(im, fs, work_directory)])
        /\ Get(fs[find_annotation_file(im, fs, work_directory)].doc, "hash", EmptyStr)
             = Head(events).hash_value

\* the signal at the head of the queue is delivered to on_hash_calculated,
\* which runs the repair for its entry
RepairRuns ==
    /\ events # << >>
    /\ Head(events).sig = "hash_calculated"
    /\ Head(events).index < Len(images)
    /\ last'.op = "on_hash_calculated"
    /\ events' = Tail(events)

\* a second repair of the entry, with the embedding on or off, leaves the
\* files as the repair of this step has left them
SecondRepairWritesNothing ==
    \A enable \in BOOLEAN :
        check_and_update_annotation_file(images'[Head(events).index + 1], fs',
                                         work_directory, enable).files = fs'

\* C40: hash repair is idempotent: applied to a sidecar whose stored hash
\* equals the live hash already it writes nothing, and applied twice it
\* leaves the sidecar after the second run as it was after the first.
C40_RepairIdempotent ==
    [][ RepairRuns => /\ SecondRepairWritesNothing
                      /\ (RepairOfConsistent => fs' = fs) ]_vars

\* two worker passes have hashed the replaced image and both signals have
\* been delivered: the first repaired the sidecar, the second met the live
\* hash in it
C40_Witness ==
    /\ last.op = "on_hash_calculated"
    /\ Len(threads) = 2
    /\ threads[1].i = 1 /\ threads[2].i = 1
    /\ \A k \in 1..Len(events) : events[k].sig # "hash_calculated"
    /\ Len(images) = 1
    /\ images[1].hash = Sha256Hex(1)
    /\ Get(fs[Join(TopDir, << "a" >> \o JsonExt)].doc, "hash", None) = Sha256Hex(1)
====
